---- MODULE Spec2Model ----
(***************************************************************************)
(* A model of the DjangoQL completion widget (src/src/index.js): the       *)
(* tokenizer, resolveName, getContext and generateSuggestions, driven by   *)
(* the keyboard events of the textarea.                                    *)
(*                                                                         *)
(* A JavaScript string is a sequence of one-character strings; offsets are *)
(* the 0-based offsets of the code, so text.slice(a, b) is                 *)
(* SubSeq(text, a + 1, b).                                                 *)
(***************************************************************************)
EXTENDS Integers, Sequences, FiniteSets, TLC

VARIABLES
    models,        \* this.models: model id -> sequence of field definitions
    currentModel,  \* this.currentModel
    text,          \* this.textarea.value
    cursor,        \* this.textarea.selectionStart
    selectionEnd,  \* this.textarea.selectionEnd
    keys,          \* number of keyboard events handled so far
    context,       \* what the last getContext call returned
    prefix,        \* this.prefix
    suggestions,   \* this.suggestions
    selected,      \* this.selected
    threw,         \* the last handler ended in an uncaught TypeError
    name,          \* the argument of the last direct resolveName call
    resolved,      \* what that call returned
    tokens,        \* what the last direct lexAll call returned
    suggestionsAPIUrl,  \* this.suggestionsAPIUrl: "null" or an address
    suggestionsCache,   \* this.suggestionsCache
    timer,         \* the pending call of debouncedLoadFieldOptions
    request,       \* this.request: the XMLHttpRequest under way
    loading,       \* this.loading
    errors,        \* number of messages logError has written
    issued,        \* the last request getJson sent, and the one it aborted
    delivered,     \* the last page a response delivered
    completionEnabled,  \* this.completionEnabled
    completion     \* the popup: completion.style.display and the number of
                   \* li[data-index] elements of completionUL

vars == <<models, currentModel, text, cursor, keys, context, prefix,
          suggestions, selected, threw, name, resolved, suggestionsAPIUrl,
          suggestionsCache, timer, request, loading, errors, issued,
          delivered, selectionEnd, completionEnabled, completion, tokens>>

(***************************************************************************)
(* null and undefined of the code.                                         *)
(***************************************************************************)
Null == "null"
Undefined == "undefined"

\* text.slice(a, b) with 0 <= a
Slice(t, a, b) == SubSeq(t, a + 1, b)

\* text.slice(a)
SliceFrom(t, a) == SubSeq(t, a + 1, Len(t))

(***************************************************************************)
(* Character classes of the lexer's regular expressions.                   *)
(***************************************************************************)
LowerChars == {"a", "b", "c", "d", "e", "f", "g", "h", "i", "j", "k", "l", "m",
               "n", "o", "p", "q", "r", "s", "t", "u", "v", "w", "x", "y", "z"}
UpperChars == {"A", "B", "C", "D", "E", "F", "G", "H", "I", "J", "K", "L", "M",
               "N", "O", "P", "Q", "R", "S", "T", "U", "V", "W", "X", "Y", "Z"}
NonZeroDigits == {"1", "2", "3", "4", "5", "6", "7", "8", "9"}
Digits == {"0"} \cup NonZeroDigits
HexDigits == Digits \cup {"a", "b", "c", "d", "e", "f", "A", "B", "C", "D", "E", "F"}
NameStartChars == LowerChars \cup UpperChars \cup {"_"}
NameChars == NameStartChars \cup Digits
WhitespaceChars == {" ", "\t", "\f"}
LineTerminators == {"\n", "\r"}
EscapedChars == {"\\", "\"", "/", "b", "f", "n", "r", "t"}

\* The first offset at or after i (1-based) whose character is not in S.
RECURSIVE RunEnd(_, _, _)
RunEnd(t, i, S) ==
    IF i <= Len(t) /\ t[i] \in S THEN RunEnd(t, i + 1, S) ELSE i

(***************************************************************************)
(* The lexer's rules.  Each Match operator gives the length of the rule's  *)
(* match at 1-based position i, 0 when the rule does not match there.      *)
(***************************************************************************)
MatchWhitespace(t, i) == RunEnd(t, i, WhitespaceChars) - i

MatchLiteral(t, i, lit) ==
    IF i + Len(lit) - 1 <= Len(t) /\ \A k \in 1..Len(lit) : t[i + k - 1] = lit[k]
    THEN Len(lit) ELSE 0

\* word(?![_0-9A-Za-z])
MatchReserved(t, i, w) ==
    IF MatchLiteral(t, i, w) > 0
       /\ (i + Len(w) > Len(t) \/ t[i + Len(w)] \notin NameChars)
    THEN Len(w) ELSE 0

\* [_A-Za-z][_0-9A-Za-z]*  : the offset after it, i when there is none
IdentEnd(t, i) ==
    IF i <= Len(t) /\ t[i] \in NameStartChars
    THEN RunEnd(t, i + 1, NameChars) ELSE i

\* (\.[_A-Za-z][_0-9A-Za-z]*)*
RECURSIVE DottedEnd(_, _)
DottedEnd(t, j) ==
    IF j <= Len(t) /\ t[j] = "." /\ IdentEnd(t, j + 1) > j + 1
    THEN DottedEnd(t, IdentEnd(t, j + 1)) ELSE j

MatchName(t, i) ==
    IF IdentEnd(t, i) = i THEN 0 ELSE DottedEnd(t, IdentEnd(t, i)) - i

\* the body of a string from j on: the offset after the closing quote, 0
\* when the string is not closed or holds a character no alternative takes
RECURSIVE StringEnd(_, _)
StringEnd(t, j) ==
    IF j > Len(t) THEN 0
    ELSE IF t[j] = "\"" THEN j + 1
    ELSE IF t[j] = "\\" THEN
        IF j + 1 <= Len(t) /\ t[j + 1] \in EscapedChars
        THEN StringEnd(t, j + 2)
        ELSE IF j + 5 <= Len(t) /\ t[j + 1] = "u"
                /\ \A k \in 2..5 : t[j + k] \in HexDigits
        THEN StringEnd(t, j + 6)
        ELSE 0
    ELSE IF t[j] \in LineTerminators THEN 0
    ELSE StringEnd(t, j + 1)

MatchString(t, i) ==
    IF i <= Len(t) /\ t[i] = "\"" /\ StringEnd(t, i + 1) > 0
    THEN StringEnd(t, i + 1) - i ELSE 0

\* (-?0|-?[1-9][0-9]*) : the offset after it, 0 when there is none
IntEnd(t, i) ==
    LET s == IF i <= Len(t) /\ t[i] = "-" THEN i + 1 ELSE i
    IN  IF s <= Len(t) /\ t[s] = "0" THEN s + 1
        ELSE IF s <= Len(t) /\ t[s] \in NonZeroDigits
        THEN RunEnd(t, s + 1, Digits)
        ELSE 0

MatchInt(t, i) == IF IntEnd(t, i) = 0 THEN 0 ELSE IntEnd(t, i) - i

\* \.[0-9]+
FracEnd(t, j) ==
    IF j + 1 <= Len(t) /\ t[j] = "." /\ t[j + 1] \in Digits
    THEN RunEnd(t, j + 1, Digits) ELSE 0

\* [eE][+-]?[0-9]+
ExpEnd(t, j) ==
    IF j <= Len(t) /\ t[j] \in {"e", "E"}
    THEN LET s == IF j + 1 <= Len(t) /\ t[j + 1] \in {"+", "-"}
                  THEN j + 2 ELSE j + 1
         IN  IF s <= Len(t) /\ t[s] \in Digits
             THEN RunEnd(t, s, Digits) ELSE 0
    ELSE 0

\* int frac exp | int frac | int exp
MatchFloat(t, i) ==
    LET a == IntEnd(t, i)
        f == FracEnd(t, a)
    IN  IF a = 0 THEN 0
        ELSE IF f > 0
        THEN (IF ExpEnd(t, f) > 0 THEN ExpEnd(t, f) - i ELSE f - i)
        ELSE IF ExpEnd(t, a) > 0 THEN ExpEnd(t, a) - i
        ELSE 0

\* lexer.addRule(...), in the order the rules are added
Rules == <<
    [name |-> "WHITESPACE",    kind |-> "ws",     pat |-> <<>>],
    [name |-> "DOT",           kind |-> "lit",    pat |-> <<".">>],
    [name |-> "COMMA",         kind |-> "lit",    pat |-> <<",">>],
    [name |-> "OR",            kind |-> "word",   pat |-> <<"o", "r">>],
    [name |-> "AND",           kind |-> "word",   pat |-> <<"a", "n", "d">>],
    [name |-> "NOT",           kind |-> "word",   pat |-> <<"n", "o", "t">>],
    [name |-> "IN",            kind |-> "word",   pat |-> <<"i", "n">>],
    [name |-> "STARTSWITH",    kind |-> "word",
     pat |-> <<"s", "t", "a", "r", "t", "s", "w", "i", "t", "h">>],
    [name |-> "ENDSWITH",      kind |-> "word",
     pat |-> <<"e", "n", "d", "s", "w", "i", "t", "h">>],
    [name |-> "TRUE",          kind |-> "word",   pat |-> <<"T", "r", "u", "e">>],
    [name |-> "FALSE",         kind |-> "word",
     pat |-> <<"F", "a", "l", "s", "e">>],
    [name |-> "NONE",          kind |-> "word",   pat |-> <<"N", "o", "n", "e">>],
    [name |-> "NAME",          kind |-> "name",   pat |-> <<>>],
    [name |-> "STRING_VALUE",  kind |-> "string", pat |-> <<>>],
    [name |-> "INT_VALUE",     kind |-> "int",    pat |-> <<>>],
    [name |-> "FLOAT_VALUE",   kind |-> "float",  pat |-> <<>>],
    [name |-> "PAREN_L",       kind |-> "lit",    pat |-> <<"(">>],
    [name |-> "PAREN_R",       kind |-> "lit",    pat |-> <<")">>],
    [name |-> "EQUALS",        kind |-> "lit",    pat |-> <<"=">>],
    [name |-> "NOT_EQUALS",    kind |-> "lit",    pat |-> <<"!", "=">>],
    [name |-> "GREATER",       kind |-> "lit",    pat |-> <<">">>],
    [name |-> "GREATER_EQUAL", kind |-> "lit",    pat |-> <<">", "=">>],
    [name |-> "LESS",          kind |-> "lit",    pat |-> <<"<">>],
    [name |-> "LESS_EQUAL",    kind |-> "lit",    pat |-> <<"<", "=">>],
    [name |-> "CONTAINS",      kind |-> "lit",    pat |-> <<"~">>],
    [name |-> "NOT_CONTAINS",  kind |-> "lit",    pat |-> <<"!", "~">>] >>

RuleMatch(r, t, i) ==
    CASE r.kind = "ws"     -> MatchWhitespace(t, i)
      [] r.kind = "lit"    -> MatchLiteral(t, i, r.pat)
      [] r.kind = "word"   -> MatchReserved(t, i, r.pat)
      [] r.kind = "name"   -> MatchName(t, i)
      [] r.kind = "string" -> MatchString(t, i)
      [] r.kind = "int"    -> MatchInt(t, i)
      [] r.kind = "float"  -> MatchFloat(t, i)

\* the longest match, the rule added last among equally long ones
LongestLast(lens) ==
    CHOOSE r \in
        { IF hit = {} THEN <<0, 0>>
          ELSE LET k == CHOOSE k \in hit : \A j \in hit :
                            lens[j] < lens[k] \/ (lens[j] = lens[k] /\ k >= j)
               IN  <<k, lens[k]>> :
          hit \in {{k \in DOMAIN lens : lens[k] > 0}} } : TRUE

\* Of the rules' match lengths at one position: the longest match, the rule
\* added first among equally long ones.  <<rule, length>>, <<0, 0>> when no
\* rule matches.
Longest(lens) ==
    CHOOSE r \in
        { IF hit = {} THEN <<0, 0>>
          ELSE LET k == CHOOSE k \in hit : \A j \in hit :
                            lens[j] < lens[k] \/ (lens[j] = lens[k] /\ k <= j)
               IN  <<k, lens[k]>> :
          hit \in {{k \in DOMAIN lens : lens[k] > 0}} } : TRUE

\* The rule the lexer applies at position i.  (A set of one element binds a
\* value that is used more than once.)
BestRule(t, i) ==
    CHOOSE r \in { Longest(lens) :
                   lens \in {[k \in 1..Len(Rules) |-> RuleMatch(Rules[k], t, i)]} } :
        TRUE

\* The token a rule's action returns, with the offsets lexAll adds:
\* index is the lexer's offset after the match, 0-based.
Token(r, lexeme, index) ==
    LET value == IF r.name = "STRING_VALUE"
                 THEN SubSeq(lexeme, 2, Len(lexeme) - 1)
                 ELSE lexeme
    IN  [name |-> r.name, value |-> value,
         start |-> index - Len(value), end |-> index]

\* lexer.setInput(t).lexAll(), from 1-based position i on; a character no
\* rule matches is skipped
RECURSIVE LexFrom(_, _)
LexNext(t, i, best) ==
    IF best[1] = 0 THEN LexFrom(t, i + 1)
    ELSE IF Rules[best[1]].name = "WHITESPACE" THEN LexFrom(t, i + best[2])
    ELSE <<Token(Rules[best[1]], SubSeq(t, i, i + best[2] - 1),
                 i + best[2] - 1)>>
         \o LexFrom(t, i + best[2])

LexFrom(t, i) ==
    IF i > Len(t) THEN <<>>
    ELSE CHOOSE r \in { LexNext(t, i, best) : best \in {BestRule(t, i)} } : TRUE

lexAll(t) == CHOOSE r \in { LexFrom(s, 1) : s \in {t} } : TRUE

(***************************************************************************)
(* The schema.  A model is the sequence of its field definitions, in the   *)
(* order Object.keys enumerates them.  A string that may be null is a      *)
(* sequence of characters or NullStr.                                      *)
(***************************************************************************)
NullStr == <<"null">>

NoOptions == [kind |-> "none", items |-> <<>>]

FieldDef(n, t, rel) ==
    [name |-> n, type |-> t, relation |-> rel, options |-> NoOptions,
     nullable |-> FALSE]

s_id == <<"i", "d">>
s_name == <<"n", "a", "m", "e">>
s_user == <<"u", "s", "e", "r">>
s_book == <<"b", "o", "o", "k">>
s_email == <<"e", "m", "a", "i", "l">>
s_groups == <<"g", "r", "o", "u", "p", "s">>
s_author == <<"a", "u", "t", "h", "o", "r">>
s_written == <<"w", "r", "i", "t", "t", "e", "n">>
s_is_published == <<"i", "s", "_", "p", "u", "b", "l", "i", "s", "h", "e", "d">>
s_rating == <<"r", "a", "t", "i", "n", "g">>
s_gav == <<"g", "a", "v">>

\* the introspections of the test suite, with fewer scalar fields
TestModels ==
    [m \in {"auth.group", "auth.user", "core.book"} |->
        CASE m = "auth.group" ->
                << FieldDef(s_user, "relation", "auth.user"),
                   FieldDef(s_id, "int", Null),
                   FieldDef(s_name, "str", Null) >>
          [] m = "auth.user" ->
                << FieldDef(s_book, "relation", "core.book"),
                   FieldDef(s_id, "int", Null),
                   FieldDef(s_email, "str", Null),
                   FieldDef(s_groups, "relation", "auth.group") >>
          [] m = "core.book" ->
                << FieldDef(s_id, "int", Null),
                   FieldDef(s_name, "str", Null),
                   FieldDef(s_author, "relation", "auth.user"),
                   FieldDef(s_written, "datetime", Null),
                   FieldDef(s_is_published, "bool", Null),
                   FieldDef(s_rating, "float", Null) >>]

\* the same introspections without the model auth.group, which the relation
\* auth.user.groups still names
DanglingModels == [m \in {"auth.user", "core.book"} |-> TestModels[m]]

\* every relation names a model of the schema
WellFormed(ms) ==
    \A m \in DOMAIN ms : \A k \in 1..Len(ms[m]) :
        ms[m][k].type = "relation" => ms[m][k].relation \in DOMAIN ms

\* this.models[model][f] is defined; model is a key of this.models
HasField(model, f) == \E k \in 1..Len(models[model]) : models[model][k].name = f

\* this.models[model][f]
Field(model, f) ==
    models[model][CHOOSE k \in 1..Len(models[model]) : models[model][k].name = f]

\* s.split('.')
RECURSIVE Split(_)
Split(s) ==
    IF \E k \in 1..Len(s) : s[k] = "."
    THEN LET k == CHOOSE k \in 1..Len(s) :
                     s[k] = "." /\ \A j \in 1..(k - 1) : s[j] # "."
         IN  <<SubSeq(s, 1, k - 1)>> \o Split(SubSeq(s, k + 1, Len(s)))
    ELSE <<s>>

\* parts.join('.')
RECURSIVE Join(_)
Join(parts) ==
    IF Len(parts) = 0 THEN <<>>
    ELSE IF Len(parts) = 1 THEN parts[1]
    ELSE parts[1] \o <<".">> \o Join(Tail(parts))

\* resolveName without the break of line 618: the walk goes on from the null
\* model
RECURSIVE ResolvePartsNoBreak(_, _, _, _, _)
ResolvePartsNoBreak(nameParts, i, model, field, modelStack) ==
    IF i > Len(nameParts)
    THEN [modelStack |-> modelStack, model |-> model, field |-> field,
          threw |-> FALSE]
    ELSE IF model \notin DOMAIN models
    THEN [modelStack |-> modelStack, model |-> model, field |-> field,
          threw |-> TRUE]
    ELSE IF ~HasField(model, nameParts[i])
    THEN ResolvePartsNoBreak(nameParts, i + 1, Null, NullStr, modelStack)
    ELSE IF Field(model, nameParts[i]).type = "relation"
    THEN ResolvePartsNoBreak(nameParts, i + 1,
                             Field(model, nameParts[i]).relation, NullStr,
                             Append(modelStack,
                                    Field(model, nameParts[i]).relation))
    ELSE ResolvePartsNoBreak(nameParts, i + 1, model, nameParts[i],
                             modelStack)

\* resolveName without the push of line 621
RECURSIVE ResolvePartsNoPush(_, _, _, _, _)
ResolvePartsNoPush(nameParts, i, model, field, modelStack) ==
    IF i > Len(nameParts)
    THEN [modelStack |-> modelStack, model |-> model, field |-> field,
          threw |-> FALSE]
    ELSE IF model \notin DOMAIN models
    THEN [modelStack |-> modelStack, model |-> model, field |-> field,
          threw |-> TRUE]
    ELSE IF ~HasField(model, nameParts[i])
    THEN [modelStack |-> modelStack, model |-> Null, field |-> NullStr,
          threw |-> FALSE]
    ELSE IF Field(model, nameParts[i]).type = "relation"
    THEN ResolvePartsNoPush(nameParts, i + 1,
                            Field(model, nameParts[i]).relation, NullStr,
                            modelStack)
    ELSE ResolvePartsNoPush(nameParts, i + 1, model, nameParts[i],
                            modelStack)

(***************************************************************************)
(* resolveName.  threw: the call ended in a TypeError (a property of       *)
(* undefined was read) instead of returning.                               *)
(***************************************************************************)
RECURSIVE ResolveParts(_, _, _, _, _)
ResolveParts(nameParts, i, model, field, modelStack) ==
    IF i > Len(nameParts)
    THEN [modelStack |-> modelStack, model |-> model, field |-> field,
          threw |-> FALSE]
    ELSE IF model \notin DOMAIN models
    THEN [modelStack |-> modelStack, model |-> model, field |-> field,
          threw |-> TRUE]
    ELSE IF ~HasField(model, nameParts[i])
    THEN [modelStack |-> modelStack, model |-> Null, field |-> NullStr,
          threw |-> FALSE]
    ELSE IF Field(model, nameParts[i]).type = "relation"
    THEN ResolveParts(nameParts, i + 1, Field(model, nameParts[i]).relation,
                      NullStr,
                      Append(modelStack, Field(model, nameParts[i]).relation))
    ELSE ResolveParts(nameParts, i + 1, model, nameParts[i], modelStack)

resolveName(n) ==
    IF currentModel = Null
    THEN [modelStack |-> <<>>, model |-> Null, field |-> NullStr,
          threw |-> FALSE]
    ELSE ResolveParts(Split(n), 1, currentModel, NullStr, <<currentModel>>)

(***************************************************************************)
(* getContext.                                                             *)
(***************************************************************************)
NullToken == [name |-> Null, value |-> <<>>, start |-> 0, end |-> 0]
UndefinedToken == [name |-> Undefined, value |-> <<>>, start |-> 0, end |-> 0]

\* the list of lines 732-733 without PAREN_R
valueTokensNoParen == {"INT_VALUE", "FLOAT_VALUE", "STRING_VALUE"}

logicalTokens == {"AND", "OR"}
comparisonTokens == {"EQUALS", "NOT_EQUALS", "CONTAINS", "NOT_CONTAINS",
                     "GREATER_EQUAL", "GREATER", "LESS_EQUAL", "LESS"}
valueTokens == {"PAREN_R", "INT_VALUE", "FLOAT_VALUE", "STRING_VALUE"}

\* p.match(whitespaceRegex): the length of the first run of whitespace
\* anywhere in p, 0 when the match is null
WhitespaceMatch(p) ==
    IF \E k \in 1..Len(p) : p[k] \in WhitespaceChars
    THEN LET k == CHOOSE k \in 1..Len(p) :
                     /\ p[k] \in WhitespaceChars
                     /\ \A j \in 1..(k - 1) : p[j] \notin WhitespaceChars
         IN  RunEnd(p, k, WhitespaceChars) - k
    ELSE 0

\* tokens (line 644), before the pop
CursorTokens(t, cursorPos) == lexAll(Slice(t, 0, cursorPos))

\* a Context; threw: getContext ended in a TypeError and returned nothing
Ctx(p, scope, model, field, full, stack) ==
    [prefix |-> p, scope |-> scope, model |-> model, field |-> field,
     currentFullToken |-> full, modelStack |-> stack, threw |-> FALSE]

Thrown ==
    [prefix |-> <<>>, scope |-> Null, model |-> Null, field |-> NullStr,
     currentFullToken |-> NullToken, modelStack |-> <<>>, threw |-> TRUE]

\* the locals lastToken and nextToLastToken of the call, kept with its result
Locals(lastToken, nextToLastToken) ==
    [called |-> TRUE, lastToken |-> lastToken,
     nextToLastToken |-> nextToLastToken]

\* no call has been made yet
NoContext ==
    [prefix |-> <<>>, scope |-> Null, model |-> Null, field |-> NullStr,
     currentFullToken |-> NullToken, modelStack |-> <<>>, threw |-> FALSE,
     called |-> FALSE, lastToken |-> NullToken, nextToLastToken |-> NullToken]

\* the branch scope = 'field' (lines 683-704)
FieldBranch(t, cursorPos, p, lastToken, full) ==
    IF p = <<".">> /\ lastToken.name = Null
    THEN Thrown   \* lastToken.start of null
    ELSE LET p1 == IF p = <<".">> THEN Slice(t, lastToken.start, cursorPos)
                   ELSE p
             nameParts == Split(p1)
             n == Len(nameParts)
             resolvedName == resolveName(Join(SubSeq(nameParts, 1, n - 1)))
         IN  IF n > 1
             THEN IF resolvedName.threw THEN Thrown
                  ELSE IF resolvedName.model # Null
                          /\ resolvedName.field = NullStr
                  THEN Ctx(nameParts[n], "field", resolvedName.model, NullStr,
                           full, resolvedName.modelStack)
                  ELSE Ctx(nameParts[n], Null, Null, NullStr, full,
                           <<currentModel>>)
             ELSE Ctx(p1, "field", currentModel, NullStr, full,
                      <<currentModel>>)

\* lines 711-721 without the test of resolvedName.model (line 713)
ValueBranchNoCheck(p, nextToLastToken, full) ==
    LET resolvedName == resolveName(nextToLastToken.value)
    IN  IF resolvedName.threw THEN Thrown
        ELSE Ctx(p, "value", resolvedName.model, resolvedName.field, full,
                 resolvedName.modelStack)

\* lines 723-729 asking for a field as well as a model at line 725
ComparisonBranchFieldOnly(p, lastToken, full) ==
    LET resolvedName == resolveName(lastToken.value)
    IN  IF resolvedName.threw THEN Thrown
        ELSE IF resolvedName.model # Null /\ resolvedName.field # NullStr
        THEN Ctx(p, "comparison", resolvedName.model, resolvedName.field, full,
                 resolvedName.modelStack)
        ELSE Ctx(p, Null, Null, NullStr, full, <<currentModel>>)

\* the branch of a NAME and a comparison operator (lines 711-721)
ValueBranch(p, nextToLastToken, full) ==
    LET resolvedName == resolveName(nextToLastToken.value)
        model == resolvedName.model
        field == resolvedName.field
    IN  IF resolvedName.threw THEN Thrown
        ELSE IF model = Null
        THEN Ctx(p, Null, Null, NullStr, full, <<currentModel>>)
        ELSE IF Len(p) > 0 /\ p[1] = "\""
        THEN IF model \notin DOMAIN models \/ ~HasField(model, field)
             THEN Thrown   \* this.models[model][field].type of undefined
             ELSE IF Field(model, field).type = "str"
                     \/ Field(model, field).options.kind # "none"
             THEN Ctx(Tail(p), "value", model, field, full,
                      resolvedName.modelStack)
             ELSE Ctx(p, "value", model, field, full, resolvedName.modelStack)
        ELSE Ctx(p, "value", model, field, full, resolvedName.modelStack)

\* the branch of a NAME (lines 723-729)
ComparisonBranch(p, lastToken, full) ==
    LET resolvedName == resolveName(lastToken.value)
    IN  IF resolvedName.threw THEN Thrown
        ELSE IF resolvedName.model # Null
        THEN Ctx(p, "comparison", resolvedName.model, resolvedName.field, full,
                 resolvedName.modelStack)
        ELSE Ctx(p, Null, Null, NullStr, full, <<currentModel>>)

\* allTokens[k - 1] (line 650); text.slice(0, cursorPos) is text when the
\* cursor is at the end, and tokens0 are its tokens
FullToken(t, cursorPos, tokens0, k) ==
    CHOOSE r \in
        { IF k <= Len(allTokens) THEN allTokens[k] ELSE UndefinedToken :
          allTokens \in {IF cursorPos = Len(t) THEN tokens0 ELSE lexAll(t)} } :
        TRUE

\* line 675 without the negation of whitespace
AfterParenSpaced(p, whitespace) == p = <<")">> /\ whitespace

\* prefix === ')' && !whitespace (line 675)
AfterParen(p, whitespace) == p = <<")">> /\ ~whitespace

\* lines 664-735, with lastToken and nextToLastToken found and the prefix
\* cut at the last token's end: p0
Dispatch(t, cursorPos, p0, wsLen, lastToken, nextToLastToken, full) ==
    LET whitespace == wsLen > 0
        prefix1 == IF whitespace THEN SliceFrom(p0, wsLen) ELSE p0
        p == IF prefix1 = <<"(">> THEN <<>> ELSE prefix1
    IN  IF AfterParen(p, whitespace)
        THEN Ctx(p, Null, Null, NullStr, full, <<currentModel>>)
        ELSE IF \/ lastToken.name = Null
                \/ (lastToken.name \in logicalTokens /\ whitespace)
                \/ (p = <<".">> /\ lastToken.name # Null /\ ~whitespace)
                \/ (lastToken.name = "PAREN_L"
                    /\ (nextToLastToken.name = Null
                        \/ nextToLastToken.name \in logicalTokens))
        THEN FieldBranch(t, cursorPos, p, lastToken, full)
        ELSE IF /\ lastToken.name # Null
                /\ whitespace
                /\ nextToLastToken.name = "NAME"
                /\ lastToken.name \in comparisonTokens
        THEN ValueBranch(p, nextToLastToken, full)
        ELSE IF lastToken.name # Null /\ whitespace /\ lastToken.name = "NAME"
        THEN ComparisonBranch(p, lastToken, full)
        ELSE IF lastToken.name # Null /\ whitespace
                /\ lastToken.name \in valueTokens
        THEN Ctx(p, "logical", Null, NullStr, full, <<currentModel>>)
        ELSE Ctx(p, Null, Null, NullStr, full, <<currentModel>>)

\* getContext once the text before the cursor is tokenized (lines 646-664)
ContextOf(t, cursorPos, tokens0) ==
    LET onLast == Len(tokens0) > 0 /\ tokens0[Len(tokens0)].end >= cursorPos
        n == IF onLast THEN Len(tokens0) - 1 ELSE Len(tokens0)
        currentFullToken ==
            IF onLast THEN FullToken(t, cursorPos, tokens0, Len(tokens0))
            ELSE NullToken
        lastToken == IF n > 0 THEN tokens0[n] ELSE NullToken
        nextToLastToken == IF n > 1 THEN tokens0[n - 1] ELSE NullToken
    IN  CHOOSE r \in
            { Dispatch(t, cursorPos, p0, WhitespaceMatch(p0), lastToken,
                       nextToLastToken, currentFullToken)
              @@ Locals(lastToken, nextToLastToken) :
              p0 \in {Slice(t, IF n > 0 THEN tokens0[n].end ELSE 0,
                            cursorPos)} } : TRUE

getContext(t, cursorPos) ==
    CHOOSE r \in { ContextOf(t, cursorPos, tokens0) :
                   tokens0 \in {CursorTokens(t, cursorPos)} } : TRUE

(***************************************************************************)
(* generateSuggestions.                                                    *)
(***************************************************************************)
\* this.selected = null
NullIndex == -1

\* options.valuesCaseSensitive is not set (line 127)
valuesCaseSensitive == FALSE

\* suggestion(text, snippetBefore, snippetAfter); the explanation only adds
\* to the text displayed
suggestion(txt, snippetBefore, snippetAfter) ==
    [text |-> txt, snippetBefore |-> snippetBefore,
     snippetAfter |-> snippetAfter]

\* s.indexOf(sub) >= 0
Contains(s, sub) ==
    \E i \in 1..(Len(s) - Len(sub) + 1) : SubSeq(s, i, i + Len(sub) - 1) = sub

\* s.lastIndexOf(sub, 0) === 0
StartsWith(s, sub) == Len(sub) <= Len(s) /\ SubSeq(s, 1, Len(sub)) = sub

UpperSeq == <<"A", "B", "C", "D", "E", "F", "G", "H", "I", "J", "K", "L", "M",
              "N", "O", "P", "Q", "R", "S", "T", "U", "V", "W", "X", "Y", "Z">>
LowerSeq == <<"a", "b", "c", "d", "e", "f", "g", "h", "i", "j", "k", "l", "m",
              "n", "o", "p", "q", "r", "s", "t", "u", "v", "w", "x", "y", "z">>

\* s.toLowerCase()
toLowerCase(s) ==
    [i \in 1..Len(s) |->
        IF s[i] \in UpperChars
        THEN LowerSeq[CHOOSE k \in 1..26 : UpperSeq[k] = s[i]]
        ELSE s[i]]

\* case 'field' without the test of the last stack element (line 922)
FieldSuggestionsNoLast(ctx) ==
    LET model == models[ctx.model]
        modelStack == ctx.modelStack
        Keep(f) ==
            ~ (/\ f.type = "relation"
               /\ \E k \in 1..Len(modelStack) : modelStack[k] = f.relation)
        kept == SelectSeq(model, Keep)
    IN  [k \in 1..Len(kept) |->
            suggestion(kept[k].name, <<>>,
                       IF kept[k].type = "relation" THEN <<".">> ELSE <<" ">>)]

\* case 'field' without the filter of lines 916-927
FieldSuggestionsAll(ctx) ==
    LET model == models[ctx.model]
    IN  [k \in 1..Len(model) |->
            suggestion(model[k].name, <<>>,
                       IF model[k].type = "relation" THEN <<".">> ELSE <<" ">>)]

\* case 'field' (lines 916-930)
FieldSuggestions(ctx) ==
    LET model == models[ctx.model]
        modelStack == ctx.modelStack
        Keep(f) ==
            ~ (/\ f.type = "relation"
               /\ \E k \in 1..Len(modelStack) : modelStack[k] = f.relation
               /\ modelStack[Len(modelStack)] # f.relation)
        kept == SelectSeq(model, Keep)
    IN  [k \in 1..Len(kept) |->
            suggestion(kept[k].name, <<>>,
                       IF kept[k].type = "relation" THEN <<".">> ELSE <<" ">>)]

op_eq == <<"=">>
op_ne == <<"!", "=">>
op_contains == <<"~">>
op_not_contains == <<"!", "~">>
op_gt == <<">">>
op_ge == <<">", "=">>
op_lt == <<"<">>
op_le == <<"<", "=">>
op_in == <<"i", "n">>
op_not_in == <<"n", "o", "t", " ", "i", "n">>
op_startswith == <<"s", "t", "a", "r", "t", "s", "w", "i", "t", "h">>
op_not_startswith == <<"n", "o", "t", " ">> \o op_startswith
op_endswith == <<"e", "n", "d", "s", "w", "i", "t", "h">>
op_not_endswith == <<"n", "o", "t", " ">> \o op_endswith
s_and == <<"a", "n", "d">>
s_or == <<"o", "r">>
s_None == <<"N", "o", "n", "e">>
s_True == <<"T", "r", "u", "e">>
s_False == <<"F", "a", "l", "s", "e">>

\* case 'comparison' without the test of line 960: the ordering operators for
\* str fields too
ComparisonSuggestionsOrdered(ctx) ==
    LET hasField == ctx.field # NullStr
        field == Field(ctx.model, ctx.field)
        nonBool == hasField /\ field.type # "bool"
        ops == <<op_eq, op_ne>>
               \o (IF nonBool /\ field.type \in {"date", "datetime"}
                   THEN <<op_contains, op_not_contains>>
                   ELSE IF nonBool /\ field.type = "str"
                   THEN <<op_contains, op_not_contains, op_startswith,
                          op_not_startswith, op_endswith, op_not_endswith>>
                   ELSE <<>>)
               \o (IF nonBool THEN <<op_gt, op_ge, op_lt, op_le>> ELSE <<>>)
    IN  [k \in 1..Len(ops) |-> suggestion(ops[k], <<>>, <<" ">>)]
        \o (IF nonBool
            THEN <<suggestion(op_in, <<>>, <<" ">>),
                   suggestion(op_not_in, <<>>, <<" ">>)>>
            ELSE <<>>)

\* case 'comparison' (lines 934-975); hasField: context.field is not null
ComparisonSuggestions(ctx) ==
    LET hasField == ctx.field # NullStr
        field == Field(ctx.model, ctx.field)
        nonBool == hasField /\ field.type # "bool"
        quoted == nonBool /\ (field.type \in {"date", "datetime", "str"}
                              \/ field.options.kind # "none")
        ops == <<op_eq, op_ne>>
               \o (IF nonBool /\ field.type \in {"date", "datetime"}
                   THEN <<op_contains, op_not_contains>>
                   ELSE IF nonBool /\ field.type = "str"
                   THEN <<op_contains, op_not_contains, op_startswith,
                          op_not_startswith, op_endswith, op_not_endswith>>
                   ELSE <<>>)
               \o (IF nonBool /\ field.type # "str"
                   THEN <<op_gt, op_ge, op_lt, op_le>> ELSE <<>>)
        snippetAfter == IF quoted THEN <<" ", "\"", "|", "\"">> ELSE <<" ">>
        snippetIn == IF quoted THEN <<" ", "(", "\"", "|", "\"", ")">>
                     ELSE <<" ", "(", "|", ")">>
    IN  [k \in 1..Len(ops) |-> suggestion(ops[k], <<>>, snippetAfter)]
        \o (IF nonBool
            THEN <<suggestion(op_in, <<>>, snippetIn),
                   suggestion(op_not_in, <<>>, snippetIn)>>
            ELSE <<>>)

(***************************************************************************)
(* this.suggestionsCache: an LRUCache of cacheSize entries, kept as the    *)
(* sequence of its entries from the least to the most recently used.       *)
(***************************************************************************)
\* options.cacheSize
cacheSize == 2

\* {}: what stands for the entry of a key the cache does not hold
NoEntry == [items |-> <<>>, page |-> 0, has_next |-> FALSE, loading |-> FALSE]

CacheHas(c, key) == \E k \in 1..Len(c) : c[k].key = key

\* the cache without the key
CacheDrop(c, key) == SelectSeq(c, LAMBDA e : e.key # key)

\* suggestionsCache.get(key) || {}
CacheGet(c, key) ==
    IF CacheHas(c, key)
    THEN (CHOOSE k \in 1..Len(c) : c[k].key = key) 
    ELSE 0

CacheEntry(c, key) ==
    IF CacheHas(c, key)
    THEN [f \in {"items", "page", "has_next", "loading"} |->
              c[CacheGet(c, key)][f]]
    ELSE NoEntry

\* the cache after get(key): the entry is the most recently used one
CacheTouch(c, key) ==
    IF CacheHas(c, key)
    THEN Append(CacheDrop(c, key), c[CacheGet(c, key)])
    ELSE c

\* the cache after set(key, entry): the least recently used entry leaves a
\* full cache
CacheSet(c, key, entry) ==
    LET put == Append(CacheDrop(c, key), entry @@ [key |-> key])
    IN  IF Len(put) > cacheSize THEN Tail(put) ELSE put

\* no call of debouncedLoadFieldOptions is pending
NoTimer == [pending |-> FALSE, loadMore |-> FALSE]

\* fieldOptions.cacheKey (line 770): model.field|prefix
CacheKey(ctx) == <<ctx.model, ctx.field, ctx.prefix>>

\* getCurrentFieldOptions() of a Context: "null", "list" or "remote"
getCurrentFieldOptions(ctx) ==
    IF ctx.scope # "value" \/ ctx.field = NullStr THEN "null"
    ELSE IF Field(ctx.model, ctx.field).options.kind = "none" THEN "null"
    ELSE IF Field(ctx.model, ctx.field).options.kind = "list" THEN "list"
    ELSE IF suggestionsAPIUrl = Null THEN "null"
    ELSE "remote"

\* populateFieldOptions(loadMore) once getContext has returned ctx, with the
\* cache c and the pending debounced call t: the new this.suggestions, cache
\* and pending call (lines 823-866)
populateFieldOptions(ctx, old, loadMore, c, t) ==
    LET kind == getCurrentFieldOptions(ctx)
        field == Field(ctx.model, ctx.field)
        Match(item) ==
            IF valuesCaseSensitive THEN Contains(item, ctx.prefix)
            ELSE Contains(toLowerCase(item), toLowerCase(ctx.prefix))
        cached == CacheEntry(c, CacheKey(ctx))
        options == IF kind = "list" THEN SelectSeq(field.options.items, Match)
                   ELSE cached.items
    IN  [suggestions |->
            IF kind = "null" THEN old
            ELSE [k \in 1..Len(options) |->
                     suggestion(options[k], <<"\"">>, <<"\"">>)],
         cache |->
            IF kind = "remote" THEN CacheTouch(c, CacheKey(ctx)) ELSE c,
         timer |->
            IF /\ kind = "remote"
               /\ ~cached.loading
               /\ (cached.page = 0 \/ (loadMore /\ cached.has_next))
            THEN [pending |-> TRUE, loadMore |-> loadMore]
            ELSE t]

\* what a case of the switch leaves of the cache and the debounced call when
\* it does not call populateFieldOptions
Untouched == [cache |-> suggestionsCache, timer |-> timer]

\* case 'value' (lines 984-1002): the new this.prefix and this.suggestions
ValueSuggestions(ctx, old) ==
    LET field == Field(ctx.model, ctx.field)
    IN  IF ctx.field = NullStr
        THEN [prefix |-> ctx.prefix,
              suggestions |-> <<suggestion(s_None, <<>>, <<" ">>)>>]
             @@ Untouched
        ELSE IF field.options.kind # "none"
        THEN [prefix |-> ctx.prefix]
             @@ populateFieldOptions(ctx, old, FALSE, suggestionsCache, timer)
        ELSE IF field.type = "bool"
        THEN [prefix |-> ctx.prefix,
              suggestions |->
                  <<suggestion(s_True, <<>>, <<" ">>),
                    suggestion(s_False, <<>>, <<" ">>)>>
                  \o (IF field.nullable
                      THEN <<suggestion(s_None, <<>>, <<" ">>)>> ELSE <<>>)]
             @@ Untouched
        ELSE IF field.type = "unknown"
        THEN [prefix |-> <<>>, suggestions |-> <<>>] @@ Untouched
        ELSE [prefix |-> ctx.prefix, suggestions |-> old] @@ Untouched

\* the switch on context.scope: this.prefix and this.suggestions before the
\* search filter is applied
ScopeSuggestions(ctx, old) ==
    CASE ctx.scope = "field" ->
            [prefix |-> ctx.prefix, suggestions |-> FieldSuggestions(ctx)]
            @@ Untouched
      [] ctx.scope = "comparison" ->
            [prefix |-> ctx.prefix, suggestions |-> ComparisonSuggestions(ctx)]
            @@ Untouched
      [] ctx.scope = "value" -> ValueSuggestions(ctx, old)
      [] ctx.scope = "logical" ->
            [prefix |-> ctx.prefix,
             suggestions |-> <<suggestion(s_and, <<>>, <<" ">>),
                               suggestion(s_or, <<>>, <<" ">>)>>]
            @@ Untouched
      [] OTHER -> [prefix |-> <<>>, suggestions |-> <<>>] @@ Untouched

\* the default filter of lines 902-904 kept in comparison scope
searchFilterAnywhere(scope, p, item) == Contains(item.text, p)

\* searchFilter (lines 902-904 and 977-980)
searchFilter(scope, p, item) ==
    IF scope = "comparison" THEN StartsWith(item.text, p)
    ELSE Contains(item.text, p)

\* lines 1017-1021 selecting the first item of any list that is not empty
SelectedFirst(filtered) == IF Len(filtered) >= 1 THEN 0 ELSE NullIndex

\* this.selected after the filter (lines 1017-1021)
Selected(filtered) == IF Len(filtered) = 1 THEN 0 ELSE NullIndex

\* generateSuggestions() after getContext has returned ctx
SuggestionsFor(ctx, oldPrefix, old, oldSelected) ==
    LET failed == [context |-> ctx, prefix |-> oldPrefix, suggestions |-> old,
                   selected |-> oldSelected, threw |-> TRUE]
                  @@ Untouched
        Filtered(sw) ==
            SelectSeq(sw.suggestions,
                      LAMBDA item : searchFilter(ctx.scope, sw.prefix, item))
        Done(sw, filtered) ==
            [context |-> ctx, prefix |-> sw.prefix, suggestions |-> filtered,
             selected |-> Selected(filtered),
             threw |-> FALSE, cache |-> sw.cache, timer |-> sw.timer]
    IN  IF ctx.threw THEN failed
        ELSE IF ctx.field # NullStr /\ ctx.model \notin DOMAIN models
        THEN failed   \* model[context.field] of undefined
        ELSE IF ctx.scope = "field" /\ ctx.model \notin DOMAIN models
        THEN failed   \* Object.keys(undefined)
        ELSE CHOOSE r \in { Done(sw, Filtered(sw)) :
                            sw \in {ScopeSuggestions(ctx, old)} } : TRUE

\* generateSuggestions() with completion enabled, the schema loaded and no
\* text selected: the Context, and this.prefix, this.suggestions and
\* this.selected when it ends.  A TypeError leaves the three as they were.
generateSuggestions(t, cursorPos, oldPrefix, old, oldSelected) ==
    CHOOSE r \in { SuggestionsFor(ctx, oldPrefix, old, oldSelected) :
                   ctx \in {getContext(t, cursorPos)} } : TRUE

(***************************************************************************)
(* The widget: a textarea the user types into.  Every key that is not a    *)
(* control key ends in popupCompletion (lines 416-420, 436-439).           *)
(***************************************************************************)
MaxKeys == 3

\* what one key press inserts at the cursor
Fragments == { s_id, s_author, s_or, s_and, <<".">>, <<" ">>, <<"=">>,
               <<"(">>, <<")">>, <<"\"">>, <<"1">> }

\* the textarea's content when the widget is created: empty, or a query to
\* edit
InitialTexts ==
    { <<>>,
      <<"i", "d", " ", ">">>,
      <<"i", "d", " ", ">", " ", "1">>,
      <<"i", "d", " ", ">", " ", "1", " ", "h", "m", "m">>,
      <<"a", "u", "t", "h", "o", "r", " ", "=">>,
      <<"a", " ", "=">>,
      <<"(", "i", "d", " ", "=", " ", "1">> }

\* the popup before createCompletionElement has rendered anything
NoCompletion == [display |-> "none", li |-> 0]

\* hideCompletion() (lines 496-501): this.selected and the popup
hideCompletion(comp) ==
    [selected |-> NullIndex, completion |-> [comp EXCEPT !.display = "none"]]

\* renderCompletion() without the test of this.completionEnabled (lines
\* 524-527)
renderCompletionEnabled(sel, sugg, load, comp) ==
    IF Len(sugg) = 0 /\ ~load THEN hideCompletion(comp)
    ELSE [selected |-> sel,
          completion |-> [display |-> "block", li |-> Len(sugg)]]

\* renderCompletion() (lines 516-599) with this.selected = sel,
\* this.suggestions = sugg, this.loading = load and the popup comp: one li
\* for each suggestion, and the popup shown unless there is nothing to show
renderCompletion(sel, sugg, load, comp) ==
    IF ~completionEnabled THEN hideCompletion(comp)
    ELSE IF Len(sugg) = 0 /\ ~load THEN hideCompletion(comp)
    ELSE [selected |-> sel,
          completion |-> [display |-> "block", li |-> Len(sugg)]]

\* generateSuggestions() and renderCompletion() on the textarea as the
\* handler leaves it, this.selected being sel (lines 436-439, 492-493).
\* Completion disabled or a text selection empties the list and returns
\* (lines 884-899); a TypeError of generateSuggestions ends the handler.
GenerateAndRender(sel) ==
    IF ~completionEnabled \/ cursor' # selectionEnd'
    THEN \E v \in {renderCompletion(sel, <<>>, loading, completion)} :
            /\ prefix' = <<>>
            /\ suggestions' = <<>>
            /\ selected' = v.selected
            /\ completion' = v.completion
            /\ threw' = FALSE
            /\ UNCHANGED <<context, suggestionsCache, timer,
                           suggestionsAPIUrl, request, loading, errors,
                           issued, delivered, completionEnabled>>
    ELSE \E r \in {generateSuggestions(text', cursor', prefix, suggestions,
                                       sel)} :
          \E v \in { IF r.threw
                     THEN [selected |-> r.selected, completion |-> completion]
                     ELSE renderCompletion(r.selected, r.suggestions, loading,
                                           completion) } :
            /\ context' = r.context
            /\ prefix' = r.prefix
            /\ suggestions' = r.suggestions
            /\ selected' = v.selected
            /\ completion' = v.completion
            /\ threw' = r.threw
            /\ suggestionsCache' = r.cache
            /\ timer' = r.timer
            /\ UNCHANGED <<suggestionsAPIUrl, request, loading, errors,
                           issued, delivered, completionEnabled>>

popupCompletion == GenerateAndRender(selected)

\* typing or pasting f at the cursor, in place of the text selected
KeyType(f) ==
    /\ keys < MaxKeys
    /\ keys' = keys + 1
    /\ text' = Slice(text, 0, cursor) \o f \o SliceFrom(text, selectionEnd)
    /\ cursor' = cursor + Len(f)
    /\ selectionEnd' = cursor'
    /\ UNCHANGED <<models, currentModel, name, resolved, tokens>>
    /\ popupCompletion

\* the left arrow: one character back, or to the start of the text selected
KeyLeft ==
    /\ keys < MaxKeys
    /\ cursor > 0 \/ cursor # selectionEnd
    /\ keys' = keys + 1
    /\ cursor' = IF cursor # selectionEnd THEN cursor ELSE cursor - 1
    /\ selectionEnd' = cursor'
    /\ UNCHANGED <<models, currentModel, text, name, resolved, tokens>>
    /\ popupCompletion

\* s.trim()
RECURSIVE trim(_)
trim(s) ==
    IF Len(s) > 0 /\ s[1] \in WhitespaceChars \cup LineTerminators
    THEN trim(Tail(s))
    ELSE IF Len(s) > 0 /\ s[Len(s)] \in WhitespaceChars \cup LineTerminators
    THEN trim(SubSeq(s, 1, Len(s) - 1))
    ELSE s

\* s.endsWith(sub)
EndsWith(s, sub) ==
    Len(sub) <= Len(s) /\ SubSeq(s, Len(s) - Len(sub) + 1, Len(s)) = sub

\* snippetAfter.split('|')
RECURSIVE SplitBar(_)
SplitBar(s) ==
    IF \E k \in 1..Len(s) : s[k] = "|"
    THEN LET k == CHOOSE k \in 1..Len(s) :
                     s[k] = "|" /\ \A j \in 1..(k - 1) : s[j] # "|"
         IN  <<SubSeq(s, 1, k - 1)>> \o SplitBar(SubSeq(s, k + 1, Len(s)))
    ELSE <<s>>

\* snippetAfterParts.join('')
RECURSIVE JoinParts(_)
JoinParts(parts) ==
    IF Len(parts) = 0 THEN <<>> ELSE parts[1] \o JoinParts(Tail(parts))

\* lines 442-486 of selectCompletion(index) once getContext has returned
\* ctx: the textarea's value and the cursor after the paste
Pasted(ctx, index) ==
    LET currentFullToken == ctx.currentFullToken
        startPos == cursor - Len(ctx.prefix)
        cut == currentFullToken.name \notin {Null, Undefined}
        textValue == IF cut
                     THEN Slice(text, 0, startPos)
                          \o SliceFrom(text, currentFullToken.end)
                     ELSE text
        textBefore == Slice(textValue, 0, startPos)
        textAfter == trim(SliceFrom(textValue, startPos))
        item == suggestions[index + 1]
        snippetAfterParts == SplitBar(item.snippetAfter)
        bar == Len(snippetAfterParts) > 1
        swap == bar /\ item.snippetBefore = <<>> /\ item.text = <<>>
        snippetBefore0 == IF swap THEN snippetAfterParts[1]
                          ELSE item.snippetBefore
        snippetAfter0 == IF swap THEN snippetAfterParts[2]
                         ELSE IF bar THEN JoinParts(snippetAfterParts)
                         ELSE item.snippetAfter
        snippetBefore == IF EndsWith(textBefore, snippetBefore0) THEN <<>>
                         ELSE snippetBefore0
        snippetAfter == IF StartsWith(textAfter, snippetAfter0) THEN <<>>
                        ELSE snippetAfter0
        textToPaste == snippetBefore \o item.text \o snippetAfter
    IN  [value |-> textBefore \o textToPaste \o textAfter,
         cursorPosAfter |->
             Len(textBefore) + Len(textToPaste)
             - (IF bar THEN Len(snippetAfterParts[2]) ELSE 0)]

\* selectCompletion(index) (lines 441-494).  getContext may end in a
\* TypeError, and so does line 465 when this.suggestions has no item at
\* index: the handler then ends with nothing changed.
selectCompletion(index) ==
    \E ctx \in {getContext(text, cursor)} :
        IF ctx.threw \/ index < 0 \/ index >= Len(suggestions)
        THEN /\ threw' = TRUE
             /\ context' = ctx
             /\ UNCHANGED <<text, cursor, selectionEnd, prefix, suggestions,
                            selected, suggestionsCache, timer,
                            suggestionsAPIUrl, request, loading, errors,
                            issued, delivered, completionEnabled, completion>>
        ELSE \E r \in {Pasted(ctx, index)} :
                /\ text' = r.value
                /\ cursor' = r.cursorPosAfter
                /\ selectionEnd' = cursor'
                /\ GenerateAndRender(NullIndex)

\* the up arrow (lines 354-366)
KeyUp ==
    /\ keys < MaxKeys
    /\ keys' = keys + 1
    /\ Len(suggestions) > 0
    /\ \E v \in { renderCompletion(
                      IF selected = NullIndex THEN Len(suggestions) - 1
                      ELSE IF selected = 0 THEN NullIndex
                      ELSE selected - 1,
                      suggestions, loading, completion) } :
          /\ selected' = v.selected
          /\ completion' = v.completion
    /\ UNCHANGED <<models, currentModel, text, cursor, selectionEnd, context,
                   prefix, suggestions, threw, name, resolved, tokens,
                   suggestionsAPIUrl, suggestionsCache, timer, request,
                   loading, errors, issued, delivered, completionEnabled>>

\* the down arrow (lines 368-380)
KeyDown ==
    /\ keys < MaxKeys
    /\ keys' = keys + 1
    /\ Len(suggestions) > 0
    /\ \E v \in { renderCompletion(
                      IF selected = NullIndex THEN 0
                      ELSE IF selected < Len(suggestions) - 1
                      THEN selected + 1
                      ELSE NullIndex,
                      suggestions, loading, completion) } :
          /\ selected' = v.selected
          /\ completion' = v.completion
    /\ UNCHANGED <<models, currentModel, text, cursor, selectionEnd, context,
                   prefix, suggestions, threw, name, resolved, tokens,
                   suggestionsAPIUrl, suggestionsCache, timer, request,
                   loading, errors, issued, delivered, completionEnabled>>

\* Tab or Enter with an item selected (lines 382-400); with none, Tab leaves
\* the textarea and Enter submits the form
KeyTab ==
    /\ keys < MaxKeys
    /\ keys' = keys + 1
    /\ selected # NullIndex
    /\ selectCompletion(selected)
    /\ UNCHANGED <<models, currentModel, name, resolved, tokens>>

\* a click on the item of the popup with data-index = index (lines 341-345)
ClickItem(index) ==
    /\ keys < MaxKeys
    /\ keys' = keys + 1
    /\ completion.display = "block"
    /\ index < completion.li
    /\ selectCompletion(index)
    /\ UNCHANGED <<models, currentModel, name, resolved, tokens>>

\* Esc, or the textarea losing the focus: hideCompletion (lines 191, 404-406)
KeyEsc ==
    /\ keys < MaxKeys
    /\ keys' = keys + 1
    /\ \E v \in {hideCompletion(completion)} :
          /\ selected' = v.selected
          /\ completion' = v.completion
    /\ UNCHANGED <<models, currentModel, text, cursor, selectionEnd, context,
                   prefix, suggestions, threw, name, resolved, tokens,
                   suggestionsAPIUrl, suggestionsCache, timer, request,
                   loading, errors, issued, delivered, completionEnabled>>

\* Shift and the left arrow: the selection grows by one character to the
\* left; the key is none of the switch of onKeydown, so popupCompletion runs
KeySelectLeft ==
    /\ keys < MaxKeys
    /\ cursor > 0
    /\ keys' = keys + 1
    /\ cursor' = cursor - 1
    /\ UNCHANGED <<models, currentModel, text, selectionEnd, name, resolved,
                   tokens>>
    /\ popupCompletion

\* enableCompletion() (lines 272-274)
enableCompletion ==
    /\ ~completionEnabled
    /\ completionEnabled' = TRUE
    /\ UNCHANGED <<models, currentModel, text, cursor, selectionEnd, keys,
                   context, prefix, suggestions, selected, threw, name,
                   resolved, tokens, suggestionsAPIUrl, suggestionsCache, timer,
                   request, loading, errors, issued, delivered, completion>>

\* disableCompletion() (lines 276-279)
disableCompletion ==
    /\ completionEnabled
    /\ completionEnabled' = FALSE
    /\ \E v \in {hideCompletion(completion)} :
          /\ selected' = v.selected
          /\ completion' = v.completion
    /\ UNCHANGED <<models, currentModel, text, cursor, selectionEnd, keys,
                   context, prefix, suggestions, threw, name, resolved, tokens,
                   suggestionsAPIUrl, suggestionsCache, timer, request,
                   loading, errors, issued, delivered>>

NoResult == [modelStack |-> <<>>, model |-> Null, field |-> NullStr,
             threw |-> FALSE, called |-> FALSE]

\* no XMLHttpRequest is under way
NoRequest == [active |-> FALSE, key |-> <<>>, page |-> 0]

\* getJson has sent nothing yet
NoIssue == [key |-> <<>>, page |-> 0, has_next |-> FALSE, aborted |-> NoRequest]

\* no response has come yet
NoDelivery == [key |-> <<>>, page |-> 0]

\* the widget of introspections without suggestions_api_url: no value is ever
\* fetched
NoRemote ==
    /\ suggestionsAPIUrl = Null
    /\ suggestionsCache = <<>>
    /\ timer = NoTimer
    /\ request = NoRequest
    /\ loading = FALSE
    /\ errors = 0
    /\ issued = NoIssue
    /\ delivered = NoDelivery

\* createCompletionElement() without options.completionEnabled (lines
\* 258-260), and nothing selected in the textarea
Collapsed ==
    /\ selectionEnd = cursor
    /\ completionEnabled = TRUE
    /\ completion = NoCompletion

Init ==
    /\ models = TestModels
    /\ currentModel = "core.book"
    /\ text \in InitialTexts
    /\ cursor = Len(text)
    /\ keys = 0
    /\ context = NoContext
    /\ prefix = <<>>
    /\ suggestions = <<>>
    /\ selected = NullIndex
    /\ threw = FALSE
    /\ name = <<>>
    /\ resolved = NoResult
    /\ tokens = <<>>
    /\ NoRemote
    /\ Collapsed

Next ==
    \/ \E f \in Fragments : KeyType(f)
    \/ KeyLeft

Spec == Init /\ [][Next]_vars

(***************************************************************************)
(* resolveName called on its own, as the test suite does: on every dotted  *)
(* name of up to MaxParts segments, from every model of a schema that is   *)
(* well formed or has a relation to a model it does not hold.              *)
(***************************************************************************)
MaxParts == 4

Segments == { s_id, s_author, s_groups, s_user, s_book, s_gav }

RECURSIVE DottedNames(_)
DottedNames(n) ==
    IF n <= 1 THEN Segments
    ELSE DottedNames(n - 1)
         \cup { a \o <<".">> \o b : a \in DottedNames(n - 1), b \in Segments }

InitResolve ==
    /\ models \in {TestModels, DanglingModels}
    /\ currentModel \in DOMAIN models
    /\ name \in DottedNames(MaxParts)
    /\ resolved = NoResult
    /\ tokens = <<>>
    /\ NoRemote
    /\ text = <<>>
    /\ cursor = 0
    /\ keys = 0
    /\ context = NoContext
    /\ prefix = <<>>
    /\ suggestions = <<>>
    /\ selected = NullIndex
    /\ threw = FALSE
    /\ Collapsed

\* djangoQL.resolveName(name)
CallResolveName ==
    /\ ~resolved.called
    /\ resolved' = resolveName(name) @@ [called |-> TRUE]
    /\ UNCHANGED <<models, currentModel, text, cursor, keys, context, prefix,
                   suggestions, selected, threw, name, suggestionsAPIUrl,
                   suggestionsCache, timer, request, loading, errors, issued,
                   delivered, selectionEnd, completionEnabled, completion,
                   tokens>>

NextResolve == CallResolveName

SpecResolve == InitResolve /\ [][NextResolve]_vars
(***************************************************************************)
(* generateSuggestions called on a relation path that ends in a dot, as    *)
(* the test 'should not have circular deps' does: every path of up to      *)
(* MaxPath segments, from every model of the test schema and of a schema   *)
(* with a relation from a model to itself.                                 *)
(***************************************************************************)
MaxPath == 3

s_friends == <<"f", "r", "i", "e", "n", "d", "s">>

\* the test introspections with a relation from auth.user to auth.user
SelfModels ==
    [m \in DOMAIN TestModels |->
        IF m = "auth.user"
        THEN Append(TestModels[m], FieldDef(s_friends, "relation", "auth.user"))
        ELSE TestModels[m]]

PathSegments == { s_id, s_author, s_groups, s_user, s_book, s_friends }

RECURSIVE Paths(_)
Paths(n) ==
    IF n <= 1 THEN PathSegments
    ELSE Paths(n - 1)
         \cup { a \o <<".">> \o b : a \in Paths(n - 1), b \in PathSegments }

InitPath ==
    /\ models \in {TestModels, SelfModels}
    /\ currentModel \in DOMAIN models
    /\ text \in { n \o <<".">> : n \in Paths(MaxPath) }
    /\ cursor = Len(text)
    /\ keys = 0
    /\ context = NoContext
    /\ prefix = <<>>
    /\ suggestions = <<>>
    /\ selected = NullIndex
    /\ threw = FALSE
    /\ name = <<>>
    /\ resolved = NoResult
    /\ tokens = <<>>
    /\ NoRemote
    /\ Collapsed

\* djangoQL.generateSuggestions() on the textarea as it is
CallGenerateSuggestions ==
    /\ keys = 0
    /\ keys' = 1
    /\ UNCHANGED <<models, currentModel, text, cursor, selectionEnd, name,
                   resolved, tokens>>
    /\ popupCompletion

NextPath == CallGenerateSuggestions

SpecPath == InitPath /\ [][NextPath]_vars

(***************************************************************************)
(* generateSuggestions called after a field name, whitespace and the start *)
(* of an operator: every field of a model that has a field of each type,   *)
(* every start of an operator text of up to MaxTyped characters.           *)
(***************************************************************************)
MaxTyped == 3

s_day == <<"d", "a", "y">>
s_misc == <<"m", "i", "s", "c">>
s_genre == <<"g", "e", "n", "r", "e">>
s_drama == <<"D", "r", "a", "m", "a">>
s_comedy == <<"C", "o", "m", "e", "d", "y">>

\* a schema with a field of each type the code tells apart, one of them with
\* an inline list of options
TypedModels ==
    [m \in {"auth.user", "core.book"} |->
        IF m = "auth.user"
        THEN << FieldDef(s_id, "int", Null) >>
        ELSE << FieldDef(s_id, "int", Null),
                FieldDef(s_name, "str", Null),
                FieldDef(s_author, "relation", "auth.user"),
                FieldDef(s_written, "datetime", Null),
                FieldDef(s_day, "date", Null),
                FieldDef(s_is_published, "bool", Null),
                FieldDef(s_rating, "float", Null),
                FieldDef(s_misc, "unknown", Null),
                [FieldDef(s_genre, "str", Null) EXCEPT
                    !.options = [kind |-> "list",
                                 items |-> <<s_drama, s_comedy>>]] >>]

OperatorTexts ==
    { op_eq, op_ne, op_contains, op_not_contains, op_gt, op_ge, op_lt, op_le,
      op_in, op_not_in, op_startswith, op_not_startswith, op_endswith,
      op_not_endswith }

\* what has been typed of an operator
OperatorStarts ==
    UNION { { SubSeq(op, 1, n) :
                  n \in 0..(IF Len(op) < MaxTyped THEN Len(op) ELSE MaxTyped) } :
            op \in OperatorTexts }

InitOperator ==
    /\ models = TypedModels
    /\ currentModel = "core.book"
    /\ text \in { models[currentModel][k].name \o <<" ">> \o typed :
                  k \in 1..Len(models[currentModel]), typed \in OperatorStarts }
    /\ cursor = Len(text)
    /\ keys = 0
    /\ context = NoContext
    /\ prefix = <<>>
    /\ suggestions = <<>>
    /\ selected = NullIndex
    /\ threw = FALSE
    /\ name = <<>>
    /\ resolved = NoResult
    /\ tokens = <<>>
    /\ NoRemote
    /\ Collapsed

SpecOperator == InitOperator /\ [][NextPath]_vars

(***************************************************************************)
(* Values fetched from the suggestions API: a field with options: true,    *)
(* the debounced loadFieldOptions, one XMLHttpRequest at a time, and a     *)
(* server that answers a request with any page, or not at all.             *)
(***************************************************************************)
MaxPage == 2

s_tag == <<"t", "a", "g">>

\* a schema with a field whose values come from the API
RemoteModels ==
    [m \in {"core.book"} |->
        << FieldDef(s_id, "int", Null),
           [FieldDef(s_tag, "str", Null) EXCEPT
               !.options = [kind |-> "remote", items |-> <<>>]] >>]

RemoteFragments == { <<" ">>, <<"a">> }

PageDigits == <<"1", "2", "3", "4", "5", "6", "7", "8", "9">>

\* the items of a page of the values that match the search
PageItems(search, page) == << search \o <<PageDigits[page]>> >>

InitRemote ==
    /\ models = RemoteModels
    /\ currentModel = "core.book"
    /\ text = s_tag \o <<" ", "=">>
    /\ cursor = Len(text)
    /\ keys = 0
    /\ context = NoContext
    /\ prefix = <<>>
    /\ suggestions = <<>>
    /\ selected = NullIndex
    /\ threw = FALSE
    /\ name = <<>>
    /\ resolved = NoResult
    /\ tokens = <<>>
    /\ suggestionsAPIUrl = "/suggestions"
    /\ suggestionsCache = <<>>
    /\ timer = NoTimer
    /\ request = NoRequest
    /\ loading = FALSE
    /\ errors = 0
    /\ issued = NoIssue
    /\ delivered = NoDelivery
    /\ Collapsed

\* populateFieldOptions(loadMore) as a call of its own, with the cache c and
\* the pending call t: getContext first (getCurrentFieldOptions, line 749),
\* and nothing more changes when it throws
populateNow(loadMore, c, t) ==
    \E ctx \in {getContext(text, cursor)} :
        \E r \in { IF ctx.threw
                   THEN [suggestions |-> suggestions, cache |-> c, timer |-> t]
                   ELSE populateFieldOptions(ctx, suggestions, loadMore, c,
                                             t) } :
            /\ context' = ctx
            /\ threw' = ctx.threw
            /\ suggestions' = r.suggestions
            /\ suggestionsCache' = r.cache
            /\ timer' = r.timer

\* populateFieldOptions() and renderCompletion() as the request and the
\* response handlers call them (lines 814-815, 819-820), this.loading being
\* load; a TypeError of getContext ends the handler before it renders
populateAndRender(c, t, load) ==
    /\ populateNow(FALSE, c, t)
    /\ \E v \in { IF threw'
                   THEN [selected |-> selected, completion |-> completion]
                   ELSE renderCompletion(selected, suggestions', load,
                                         completion) } :
          /\ selected' = v.selected
          /\ completion' = v.completion

\* onCompletionScroll near the end of a list that is shown
Scroll ==
    /\ keys < MaxKeys
    /\ keys' = keys + 1
    /\ Len(suggestions) > 0
    /\ completion.display = "block"
    /\ populateNow(TRUE, suggestionsCache, timer)
    /\ UNCHANGED <<models, currentModel, text, cursor, prefix, selected, name,
                   resolved, tokens, suggestionsAPIUrl, request, loading, errors,
                   issued, delivered, selectionEnd, completionEnabled,
                   completion>>


\* requestParams.page (lines 788-794) for the entry cached: 0 stands for a
\* request without the parameter, -1 for the return of line 793
RequestPage(loadMore, cached) ==
    IF loadMore /\ cached.has_next
    THEN (IF cached.page # 0 THEN cached.page + 1 ELSE 1)
    ELSE IF cached.page # 0 THEN -1
    ELSE 0

\* the 300 ms of debouncedLoadFieldOptions are over: loadFieldOptions(loadMore)
\* with the arguments of the last call (lines 775-821), getJson included
\* (lines 281-315): the request under way is aborted
DebounceFire ==
    /\ timer.pending
    /\ \E ctx \in {getContext(text, cursor)} :
        LET key == CacheKey(ctx)
            cached == CacheEntry(suggestionsCache, key)
            page == RequestPage(timer.loadMore, cached)
        IN  IF ctx.threw \/ getCurrentFieldOptions(ctx) # "remote"
            THEN /\ context' = ctx
                 /\ threw' = ctx.threw
                 /\ timer' = NoTimer
                 /\ UNCHANGED <<suggestions, suggestionsCache, request,
                                loading, issued, selected, completion>>
            ELSE IF page = -1
            THEN /\ context' = ctx
                 /\ threw' = FALSE
                 /\ timer' = NoTimer
                 /\ suggestionsCache' = CacheTouch(suggestionsCache, key)
                 /\ UNCHANGED <<suggestions, request, loading, issued,
                                selected, completion>>
            ELSE /\ request' = [active |-> TRUE, key |-> key, page |-> page]
                 /\ issued' = [key |-> key, page |-> page,
                               has_next |-> cached.has_next,
                               aborted |-> request]
                 /\ loading' = TRUE
                 /\ populateAndRender(CacheSet(suggestionsCache, key,
                                               [cached EXCEPT
                                                   !.loading = TRUE]),
                                      NoTimer, TRUE)
    /\ UNCHANGED <<models, currentModel, text, cursor, keys, prefix, name,
                   resolved, tokens, suggestionsAPIUrl, errors, delivered,
                   selectionEnd, completionEnabled>>

\* the success callback without the test of the page number (lines 802-806)
RespondUnchecked(page, has_next) ==
    /\ request.active
    /\ delivered' = [key |-> request.key, page |-> page]
    /\ request' = NoRequest
    /\ loading' = FALSE
    /\ LET cache == CacheEntry(suggestionsCache, request.key)
       IN  populateAndRender(CacheSet(suggestionsCache, request.key,
                                      [items |-> cache.items
                                           \o PageItems(request.key[3], page),
                                       page |-> page,
                                       has_next |-> has_next,
                                       loading |-> FALSE]),
                             timer, FALSE)
    /\ UNCHANGED <<models, currentModel, text, cursor, keys, prefix, name,
                   resolved, tokens, suggestionsAPIUrl, errors, issued,
                   selectionEnd, completionEnabled>>

\* the success callback storing the page without the items cached before
\* (line 810)
RespondReplacing(page, has_next) ==
    /\ request.active
    /\ delivered' = [key |-> request.key, page |-> page]
    /\ request' = NoRequest
    /\ loading' = FALSE
    /\ LET cache == CacheEntry(suggestionsCache, request.key)
       IN  IF page - 1 # cache.page
           THEN /\ suggestionsCache' = CacheTouch(suggestionsCache, request.key)
                /\ UNCHANGED <<context, threw, suggestions, timer, selected,
                               completion>>
           ELSE populateAndRender(CacheSet(suggestionsCache, request.key,
                                           [items |->
                                                PageItems(request.key[3],
                                                          page),
                                            page |-> page,
                                            has_next |-> has_next,
                                            loading |-> FALSE]),
                                  timer, FALSE)
    /\ UNCHANGED <<models, currentModel, text, cursor, keys, prefix, name,
                   resolved, tokens, suggestionsAPIUrl, errors, issued,
                   selectionEnd, completionEnabled>>

\* request.onload with status 200 and the page data (lines 295-299), then
\* the success callback of loadFieldOptions (lines 800-816)
Respond(page, has_next) ==
    /\ request.active
    /\ delivered' = [key |-> request.key, page |-> page]
    /\ request' = NoRequest
    /\ loading' = FALSE
    /\ LET cache == CacheEntry(suggestionsCache, request.key)
       IN  IF page - 1 # cache.page
           THEN /\ suggestionsCache' = CacheTouch(suggestionsCache, request.key)
                /\ UNCHANGED <<context, threw, suggestions, timer, selected,
                               completion>>
           ELSE populateAndRender(CacheSet(suggestionsCache, request.key,
                                           [items |-> cache.items
                                                \o PageItems(request.key[3],
                                                             page),
                                            page |-> page,
                                            has_next |-> has_next,
                                            loading |-> FALSE]),
                                  timer, FALSE)
    /\ UNCHANGED <<models, currentModel, text, cursor, keys, prefix, name,
                   resolved, tokens, suggestionsAPIUrl, errors, issued,
                   selectionEnd, completionEnabled>>

\* request.onerror, request.ontimeout, or request.onload with another status
\* than 200: onLoadError (lines 284-288)
Fail ==
    /\ request.active
    /\ loading' = FALSE
    /\ request' = NoRequest
    /\ errors' = errors + 1
    /\ UNCHANGED <<models, currentModel, text, cursor, keys, context, prefix,
                   suggestions, selected, threw, name, resolved, tokens,
                   suggestionsAPIUrl, suggestionsCache, timer, issued,
                   delivered, selectionEnd, completionEnabled, completion>>

NextRemote ==
    \/ \E f \in RemoteFragments : KeyType(f)
    \/ KeyLeft
    \/ Scroll
    \/ DebounceFire
    \/ \E page \in 1..MaxPage, has_next \in BOOLEAN : Respond(page, has_next)
    \/ Fail

SpecRemote == InitRemote /\ [][NextRemote]_vars

(***************************************************************************)
(* The whole widget: the keys of onKeydown, clicks on the popup, text      *)
(* selected with the keyboard, enableCompletion and disableCompletion,     *)
(* and the values fetched from the API.                                    *)
(***************************************************************************)
InitWidget ==
    /\ models = RemoteModels
    /\ currentModel = "core.book"
    /\ text \in { <<>>, s_tag \o <<" ", "=">> }
    /\ cursor = Len(text)
    /\ selectionEnd = cursor
    /\ keys = 0
    /\ context = NoContext
    /\ prefix = <<>>
    /\ suggestions = <<>>
    /\ selected = NullIndex
    /\ threw = FALSE
    /\ name = <<>>
    /\ resolved = NoResult
    /\ tokens = <<>>
    /\ suggestionsAPIUrl = "/suggestions"
    /\ suggestionsCache = <<>>
    /\ timer = NoTimer
    /\ request = NoRequest
    /\ loading = FALSE
    /\ errors = 0
    /\ issued = NoIssue
    /\ delivered = NoDelivery
    /\ completionEnabled \in BOOLEAN
    /\ completion = NoCompletion

NextWidget ==
    \/ \E f \in RemoteFragments : KeyType(f)
    \/ KeyLeft
    \/ KeySelectLeft
    \/ KeyUp
    \/ KeyDown
    \/ KeyTab
    \/ KeyEsc
    \/ \E index \in 0..1 : ClickItem(index)
    \/ enableCompletion
    \/ disableCompletion
    \/ Scroll
    \/ DebounceFire
    \/ \E page \in 1..MaxPage, has_next \in BOOLEAN : Respond(page, has_next)
    \/ Fail

SpecWidget == InitWidget /\ [][NextWidget]_vars

(***************************************************************************)
(* lexAll called on its own, as the test suite does (this.lexer), on every *)
(* text of up to MaxLex pieces: the reserved words, characters that        *)
(* continue a name, and the characters that end one.                       *)
(***************************************************************************)
MaxLex == 3

\* the reserved words (lines 40-64)
ReservedWords ==
    { Rules[k].pat : k \in { j \in 1..Len(Rules) : Rules[j].kind = "word" } }

LexPieces ==
    ReservedWords
    \cup { <<"d">>, <<"_">>, <<"1">>, <<" ">>, <<"\"">>, <<".">>, <<"=">> }

RECURSIVE LexTexts(_)
LexTexts(n) ==
    IF n = 0 THEN { <<>> }
    ELSE LexTexts(n - 1)
         \cup { a \o b : a \in LexTexts(n - 1), b \in LexPieces }

InitLex ==
    /\ models = TestModels
    /\ currentModel = "core.book"
    /\ text \in LexTexts(MaxLex)
    /\ cursor = Len(text)
    /\ keys = 0
    /\ context = NoContext
    /\ prefix = <<>>
    /\ suggestions = <<>>
    /\ selected = NullIndex
    /\ threw = FALSE
    /\ name = <<>>
    /\ resolved = NoResult
    /\ tokens = <<>>
    /\ NoRemote
    /\ Collapsed

\* djangoQL.lexer.setInput(text).lexAll()
CallLexAll ==
    /\ keys = 0
    /\ keys' = 1
    /\ tokens' = lexAll(text)
    /\ UNCHANGED <<models, currentModel, text, cursor, selectionEnd, context,
                   prefix, suggestions, selected, threw, name, resolved,
                   suggestionsAPIUrl, suggestionsCache, timer, request,
                   loading, errors, issued, delivered, completionEnabled,
                   completion>>

NextLex == CallLexAll

SpecLex == InitLex /\ [][NextLex]_vars

(***************************************************************************)
(* getContext called on its own, as the test suite does, with the cursor   *)
(* anywhere in the text: every text of up to MaxCursor characters of a     *)
(* name, a dot, a space, a quote and a digit, and a query to edit.         *)
(***************************************************************************)
MaxCursor == 5

CursorChars == { "a", ".", " ", "\"", "1" }

RECURSIVE CursorStrings(_)
CursorStrings(n) ==
    IF n = 0 THEN { <<>> }
    ELSE CursorStrings(n - 1)
         \cup { Append(a, c) : a \in CursorStrings(n - 1), c \in CursorChars }

\* author.id = 1
EditedQuery == s_author \o <<".">> \o s_id \o <<" ", "=", " ", "1">>

InitCursor ==
    /\ models = TestModels
    /\ currentModel = "core.book"
    /\ text \in CursorStrings(MaxCursor) \cup { EditedQuery }
    /\ cursor \in 0..Len(text)
    /\ keys = 0
    /\ context = NoContext
    /\ prefix = <<>>
    /\ suggestions = <<>>
    /\ selected = NullIndex
    /\ threw = FALSE
    /\ name = <<>>
    /\ resolved = NoResult
    /\ tokens = <<>>
    /\ NoRemote
    /\ Collapsed

\* djangoQL.getContext(text, cursor)
CallGetContext ==
    /\ keys = 0
    /\ keys' = 1
    /\ context' = getContext(text, cursor)
    /\ threw' = context'.threw
    /\ UNCHANGED <<models, currentModel, text, cursor, selectionEnd, prefix,
                   suggestions, selected, name, resolved, tokens,
                   suggestionsAPIUrl, suggestionsCache, timer, request,
                   loading, errors, issued, delivered, completionEnabled,
                   completion>>

NextCursor == CallGetContext

SpecCursor == InitCursor /\ [][NextCursor]_vars

(***************************************************************************)
(* Vocabulary of the properties: what the text holds around the last       *)
(* complete token before the cursor.                                       *)
(***************************************************************************)
\* where the last complete token before the cursor ends, 0 without one
LastEnd == IF context.lastToken.name = Null THEN 0 ELSE context.lastToken.end

\* the text between the last complete token and the cursor
Typed == Slice(text, LastEnd, cursor)

\* the character right after the token is whitespace
FollowedByWhitespace(tok) ==
    tok.end < cursor /\ text[tok.end + 1] \in WhitespaceChars

RECURSIVE LStrip(_)
LStrip(s) ==
    IF Len(s) > 0 /\ s[1] \in WhitespaceChars THEN LStrip(Tail(s)) ELSE s

\* the fragment being typed: Typed without its leading whitespace
Fragment == LStrip(Typed)

\* the fragment as a prefix: a lone opening paren is no part of it
FragmentPrefix == IF Fragment = <<"(">> THEN <<>> ELSE Fragment

\* the name resolves in the schema
Resolves(n) == ~resolveName(n).threw /\ resolveName(n).model # Null

IsPartialIdentifier(s) == \A k \in 1..Len(s) : s[k] \in NameChars

NoScope ==
    /\ ~context.threw
    /\ context.scope = Null
    /\ context.model = Null
    /\ context.field = NullStr

(***************************************************************************)
(* Properties of getContext and generateSuggestions, under Spec.           *)
(***************************************************************************)
\* C1: with a well-formed schema loaded, no call of getContext or of
\* generateSuggestions ends in an exception, whatever the text and the cursor.
C1_NeverThrows == ~threw /\ ~context.threw

C2_Case ==
    /\ context.called
    /\ context.nextToLastToken.name = "NAME"
    /\ Resolves(context.nextToLastToken.value)
    /\ context.lastToken.name \in comparisonTokens
    /\ FollowedByWhitespace(context.lastToken)

\* C2: when the last two complete tokens before the cursor are a NAME that
\* resolves and a comparison operator followed by whitespace, getContext
\* returns scope 'value' with the model and the field the name resolves to,
\* and an empty prefix right after the whitespace.
C2_ValueScope ==
    C2_Case =>
        /\ ~context.threw
        /\ context.scope = "value"
        /\ context.model = resolveName(context.nextToLastToken.value).model
        /\ context.field = resolveName(context.nextToLastToken.value).field
        /\ (Fragment = <<>> => context.prefix = <<>>)

C3_Case ==
    /\ context.called
    /\ \/ context.lastToken.name = Null
       \/ /\ context.lastToken.name \in logicalTokens
          /\ FollowedByWhitespace(context.lastToken)
    /\ IsPartialIdentifier(Fragment)

\* C3: with no complete token before the cursor, or with and/or followed by
\* whitespace as the last one, and an empty or dot-free partial identifier
\* being typed, getContext returns scope 'field', model = currentModel,
\* field = null and modelStack = [currentModel]; and/or not followed by
\* whitespace never gives scope 'field'.
C3_FieldScope ==
    /\ C3_Case =>
          /\ ~context.threw
          /\ context.scope = "field"
          /\ context.model = currentModel
          /\ context.field = NullStr
          /\ context.modelStack = <<currentModel>>
    /\ ( /\ context.called
         /\ context.lastToken.name \in logicalTokens
         /\ ~FollowedByWhitespace(context.lastToken) )
       => context.scope # "field"

C4_Case ==
    /\ context.called
    /\ context.lastToken.name = "NAME"
    /\ Resolves(context.lastToken.value)
    /\ FollowedByWhitespace(context.lastToken)

\* C4: when the last complete token before the cursor is a NAME that resolves
\* and is followed by whitespace, getContext returns scope 'comparison' with
\* the model and the field the name resolves to, and the operator typed so far
\* as the prefix.
C4_ComparisonScope ==
    C4_Case =>
        /\ ~context.threw
        /\ context.scope = "comparison"
        /\ context.model = resolveName(context.lastToken.value).model
        /\ context.field = resolveName(context.lastToken.value).field
        /\ context.prefix = FragmentPrefix

\* a relation-only name, then whitespace and the start of an operator
C4_Witness ==
    /\ C4_Case
    /\ context.scope = "comparison"
    /\ context.field = NullStr
    /\ context.prefix # <<>>

C5_Case ==
    /\ context.called
    /\ context.lastToken.name
           \in {"PAREN_R", "INT_VALUE", "FLOAT_VALUE", "STRING_VALUE"}
    /\ FollowedByWhitespace(context.lastToken)

\* C5: when the last complete token before the cursor is a closing paren, an
\* INT, a FLOAT or a STRING literal followed by whitespace, getContext returns
\* scope 'logical' with model and field null, and the word typed after the
\* whitespace as the prefix.
C5_LogicalScope ==
    C5_Case =>
        /\ ~context.threw
        /\ context.scope = "logical"
        /\ context.model = Null
        /\ context.field = NullStr
        /\ context.prefix = FragmentPrefix

\* a closing paren, whitespace and a word being typed
C5_Witness ==
    /\ C5_Case
    /\ context.lastToken.name = "PAREN_R"
    /\ context.scope = "logical"

\* C6 as stated: with the cursor right after a closing paren that is in no
\* string, getContext returns scope, model and field null, whatever precedes
\* the paren.
C6_NullAfterAnyParen ==
    ( /\ context.called
      /\ cursor > 0
      /\ text[cursor] = ")"
      /\ \A k \in 1..Len(text) : text[k] # "\"" )
    => NoScope

C6_Case == context.called /\ Typed = <<")">>

\* C6: when the closing paren before the cursor comes right after the last
\* complete token (or is the first character of the text), getContext returns
\* scope, model and field null.
C6_NullAfterParen == C6_Case => NoScope

\* a closing paren right after a complete token
C6_Witness == C6_Case /\ context.lastToken.name # Null /\ NoScope

C7_Case ==
    /\ context.called
    /\ \/ /\ context.lastToken.name = "NAME"
          /\ ~Resolves(context.lastToken.value)
          /\ FollowedByWhitespace(context.lastToken)
       \/ /\ context.nextToLastToken.name = "NAME"
          /\ ~Resolves(context.nextToLastToken.value)
          /\ FollowedByWhitespace(context.nextToLastToken)
          /\ context.lastToken.name \in comparisonTokens

\* C7: when a NAME that does not resolve is followed by whitespace, with or
\* without a comparison operator after it, getContext returns scope, model and
\* field null.
C7_UnknownName == C7_Case => NoScope

\* an unknown name, an operator and whitespace
C7_Witness ==
    /\ C7_Case
    /\ context.lastToken.name \in comparisonTokens
    /\ FollowedByWhitespace(context.lastToken)
    /\ NoScope
(***************************************************************************)
(* Properties of resolveName, under SpecResolve.  The walk a dotted name   *)
(* describes, told from the schema alone.                                  *)
(***************************************************************************)
RECURSIVE StackAfter(_, _)
RECURSIVE ModelAt(_, _)

\* currentModel and the targets of the relations among the first n segments
StackAfter(parts, n) ==
    IF n = 0 THEN <<currentModel>>
    ELSE IF Field(ModelAt(parts, n), parts[n]).type = "relation"
    THEN Append(StackAfter(parts, n - 1),
                Field(ModelAt(parts, n), parts[n]).relation)
    ELSE StackAfter(parts, n - 1)

\* the model current at segment i: the target of the last relation before it
ModelAt(parts, i) ==
    LET before == StackAfter(parts, i - 1) IN before[Len(before)]

\* each of the first n segments is a field of the model current at its point
RECURSIVE KnownUpTo(_, _)
KnownUpTo(parts, n) ==
    \/ n = 0
    \/ /\ KnownUpTo(parts, n - 1)
       /\ ModelAt(parts, n) \in DOMAIN models
       /\ HasField(ModelAt(parts, n), parts[n])

\* segment i is the first one that is no field of the model current there
FirstUnknown(parts, i) ==
    /\ KnownUpTo(parts, i - 1)
    /\ ModelAt(parts, i) \in DOMAIN models
    /\ ~HasField(ModelAt(parts, i), parts[i])

\* segment i is a relation whose target the schema does not hold
Dangling(parts, i) ==
    /\ KnownUpTo(parts, i)
    /\ Field(ModelAt(parts, i), parts[i]).type = "relation"
    /\ Field(ModelAt(parts, i), parts[i]).relation \notin DOMAIN models

C8_Case == resolved.called /\ KnownUpTo(Split(name), Len(Split(name)))

C9_Case ==
    /\ resolved.called
    /\ \E i \in 1..Len(Split(name)) : FirstUnknown(Split(name), i)

C10_Case ==
    /\ resolved.called
    /\ \E i \in 1..(Len(Split(name)) - 1) : Dangling(Split(name), i)

\* C10: when a relation of the name targets a model the schema does not hold,
\* resolving the segments after that relation ends with model = null and
\* field = null, and raises nothing.
C10_DegradesToUnknown ==
    C10_Case =>
        /\ ~resolved.threw
        /\ resolved.model = Null
        /\ resolved.field = NullStr

(***************************************************************************)
(* Properties of the field suggestions, under SpecPath.                    *)
(***************************************************************************)
\* the suggestions hold an item of this text
Offered(txt) == \E k \in 1..Len(suggestions) : suggestions[k].text = txt

\* the relation fields of the model of the context
Relations ==
    { models[context.model][k] : k \in 1..Len(models[context.model]) }
        \cap { f \in UNION { {ms[i] : i \in 1..Len(ms)} :
                             ms \in { models[m] : m \in DOMAIN models } } :
               f.type = "relation" }

InStack(m) ==
    \E k \in 1..Len(context.modelStack) : context.modelStack[k] = m

LastOfStack == context.modelStack[Len(context.modelStack)]

\* field scope after a relation path: the stack holds two models or more
C11_Case ==
    /\ context.called
    /\ ~threw
    /\ context.scope = "field"
    /\ Len(context.modelStack) >= 2

\* C11 as stated: for any schema, self-referential relations included, the
\* field suggestions hold no relation whose target is the element of
\* modelStack right before its last element.
C11_NoBackReference ==
    C11_Case =>
        \A f \in Relations :
            f.relation = context.modelStack[Len(context.modelStack) - 1]
                => ~Offered(f.name)

\* C11: the field suggestions hold no relation whose target is the element of
\* modelStack right before its last element, unless that model is the last
\* element too (the current model was reached through a relation to itself);
\* a relation whose target is not in modelStack is offered.  From auth.group,
\* 'user.' offers book and not groups, and 'user.book.' does not offer author.
C11_NoBackReferenceButSelf ==
    C11_Case =>
        /\ \A f \in Relations :
             /\ ( /\ f.relation
                        = context.modelStack[Len(context.modelStack) - 1]
                  /\ f.relation # LastOfStack ) => ~Offered(f.name)
             /\ ~InStack(f.relation) => Offered(f.name)
        /\ (currentModel = "auth.group" /\ text = s_user \o <<".">>)
               => Offered(s_book) /\ ~Offered(s_groups)
        /\ (currentModel = "auth.group"
            /\ text = s_user \o <<".">> \o s_book \o <<".">>)
               => ~Offered(s_author)

\* 'user.book.' from auth.group: author, back to auth.user, is left out
C11_Witness ==
    /\ C11_Case
    /\ currentModel = "auth.group"
    /\ context.modelStack = <<"auth.group", "auth.user", "core.book">>
    /\ ~Offered(s_author)
    /\ Offered(s_id)

C12_Case == context.called /\ ~threw /\ context.scope = "field"

\* C12 as stated: a relation field is left out of the field suggestions
\* exactly when its target is the last element of modelStack; a target found
\* only at other positions of the stack is still suggested.
C12_OnlyLastSuppressed ==
    C12_Case =>
        \A f \in Relations : ~Offered(f.name) <=> f.relation = LastOfStack

\* C12: a relation field is left out of the field suggestions exactly when
\* its target is in modelStack and is not its last element; a relation to the
\* last element is suggested, and so is every relation to a model outside the
\* stack.
C12_StackButLastSuppressed ==
    C12_Case =>
        \A f \in Relations :
            ~Offered(f.name)
                <=> (InStack(f.relation) /\ f.relation # LastOfStack)

\* a relation to the model three hops back, which is left out
C12_Witness ==
    /\ C12_Case
    /\ Len(context.modelStack) = 4
    /\ \E f \in Relations :
          /\ f.relation = context.modelStack[1]
          /\ \A k \in 2..4 : context.modelStack[k] # f.relation
          /\ ~Offered(f.name)

(***************************************************************************)
(* Properties of the comparison suggestions, under SpecOperator.           *)
(***************************************************************************)
SuggestionTexts == { suggestions[k].text : k \in 1..Len(suggestions) }

\* the type of the field of the context, "none" for a relation-only name
ContextType ==
    IF context.field = NullStr THEN "none"
    ELSE Field(context.model, context.field).type

\* the operators of a field type, as the documentation of the widget lists
\* them
Candidates(type) ==
    {op_eq, op_ne}
    \cup (IF type \in {"str", "date", "datetime"}
          THEN {op_contains, op_not_contains} ELSE {})
    \cup (IF type = "str"
          THEN {op_startswith, op_not_startswith, op_endswith, op_not_endswith}
          ELSE {})
    \cup (IF type \notin {"none", "bool", "str"}
          THEN {op_gt, op_ge, op_lt, op_le} ELSE {})
    \cup (IF type \notin {"none", "bool"} THEN {op_in, op_not_in} ELSE {})

C13_Case ==
    /\ context.called
    /\ ~threw
    /\ context.scope = "comparison"
    /\ context.prefix = <<>>

\* C13: with nothing typed of the operator, the comparison suggestions are
\* = and != for every field; ~ and !~ for str, date and datetime fields only;
\* startswith, not startswith, endswith, not endswith for str fields only;
\* >, >=, <, <= for resolved fields neither bool nor str only; in and not in
\* for resolved fields other than bool only; each of them once.
C13_CandidatesByType ==
    C13_Case =>
        /\ SuggestionTexts = Candidates(ContextType)
        /\ Len(suggestions) = Cardinality(SuggestionTexts)

\* a bool field: = and != and nothing else
C13_Witness ==
    /\ C13_Case
    /\ ContextType = "bool"
    /\ SuggestionTexts = {op_eq, op_ne}

C14_Case == context.called /\ ~threw /\ context.scope = "comparison"

\* C14 as stated: with st typed after a str field and whitespace, the
\* suggestions left are startswith and not startswith, and endswith is not
\* among them.
C14_StartswithAndNot ==
    (C14_Case /\ ContextType = "str" /\ context.prefix = <<"s", "t">>)
        => SuggestionTexts = {op_startswith, op_not_startswith}

\* C14: in comparison scope the suggestions left are the operators of the
\* field that begin with what was typed; with st typed after a str field the
\* only one left is startswith, which is selected: not startswith and endswith
\* are not among them.
C14_PrefixAnchored ==
    C14_Case =>
        /\ SuggestionTexts
               = { op \in Candidates(ContextType) :
                       StartsWith(op, context.prefix) }
        /\ (ContextType = "str" /\ context.prefix = <<"s", "t">>)
               => /\ SuggestionTexts = {op_startswith}
                  /\ selected = 0

\* st typed after a str field
C14_Witness ==
    /\ C14_Case
    /\ ContextType = "str"
    /\ context.prefix = <<"s", "t">>
    /\ Offered(op_startswith)
    /\ ~Offered(op_endswith)

(***************************************************************************)
(* this.selected after a pass, under Spec.                                 *)
(***************************************************************************)
C15_Case == context.called /\ ~threw

\* C15: after a generateSuggestions pass that reaches the filter, selected is
\* 0 when exactly one suggestion is left and null otherwise, whatever it was
\* before the pass.
C15_SelectedIffOne ==
    C15_Case => selected = (IF Len(suggestions) = 1 THEN 0 ELSE NullIndex)

\* one suggestion left, and selected
C15_Witness == C15_Case /\ Len(suggestions) = 1 /\ selected = 0

(***************************************************************************)
(* Properties of the value pages, under SpecRemote.                        *)
(***************************************************************************)
\* a step that delivers a page: the request ends and nothing is logged
Delivery == request.active /\ ~request'.active /\ errors' = errors

\* a step in which the request fails
Failure == request.active /\ errors' = errors + 1

\* C16: a page delivered for a key with a number that is not one more than
\* the page cached for the key (0 without an entry) is dropped: the items and
\* the page cached for the key stay as they are, and so do the suggestions.
C16_StalePageDropped ==
    [][ ( /\ Delivery
          /\ delivered'.page
                 # CacheEntry(suggestionsCache, request.key).page + 1 )
        => /\ CacheEntry(suggestionsCache', request.key)
                  = CacheEntry(suggestionsCache, request.key)
           /\ suggestions' = suggestions ]_vars

\* page 2 has come for a key whose entry holds no page, and holds none after
C16_Witness ==
    /\ delivered.page = 2
    /\ CacheHas(suggestionsCache, delivered.key)
    /\ CacheEntry(suggestionsCache, delivered.key).page = 0
    /\ CacheEntry(suggestionsCache, delivered.key).items = <<>>
    /\ ~request.active

\* C17: a request for a next page is sent only when the entry cached for the
\* key has has_next, and no request is sent for a key while a request for
\* the same key is under way.
C17_OneRequestPerKey ==
    /\ issued.page > 0 => issued.has_next
    /\ ~(issued.aborted.active /\ issued.aborted.key = issued.key)

\* C18: when a fetch fails the error is logged and the loading flag of the
\* cache entry of its key is cleared, so that the next key press on the same
\* cache key fetches again.
C18_FailureClearsLoading ==
    [][ Failure => ~CacheEntry(suggestionsCache', request.key).loading ]_vars

\* C19: a request under way for a key is not cancelled when a request for
\* another key is sent; its response is still delivered.
C19_NotCancelled ==
    ~(issued.aborted.active /\ issued.aborted.key # issued.key)

(***************************************************************************)
(* The suggestions as a function of the text, under Spec.                  *)
(***************************************************************************)
\* C20: after a generateSuggestions pass the suggestions and the prefix are
\* those a widget with no earlier pass computes from the same text, cursor,
\* schema and cache: nothing of an earlier pass is left in them.
C20_NotCarriedOver ==
    (context.called /\ ~threw) =>
        \E fresh \in { generateSuggestions(text, cursor, <<>>, <<>>,
                                           NullIndex) } :
            /\ suggestions = fresh.suggestions
            /\ prefix = fresh.prefix

(***************************************************************************)
(* Completion switched off and on.                                         *)
(***************************************************************************)
\* a handler that ends in popupCompletion
PopupStep ==
    \/ \E f \in RemoteFragments : KeyType(f)
    \/ KeyLeft
    \/ KeySelectLeft

\* a handler that calls selectCompletion
PasteStep ==
    \/ KeyTab
    \/ \E index \in 0..1 : ClickItem(index)

\* C21: while completion is disabled the popup is not displayed and nothing
\* is selected when a handler has finished, so that neither Tab nor Enter
\* nor a click pastes a suggestion; with completion enabled, a
\* popupCompletion that finds suggestions displays the popup.
C21_DisabledShowsNothing ==
    /\ [](~completionEnabled =>
              completion.display = "none" /\ selected = NullIndex)
    /\ [][PasteStep => completionEnabled]_vars
    /\ [][(PopupStep /\ completionEnabled /\ ~threw'
              /\ Len(suggestions') > 0)
          => completion'.display = "block"]_vars

\* completion disabled with suggestions still in the list, after the keys
\* are used up
C21_Witness ==
    /\ ~completionEnabled
    /\ Len(suggestions) > 0
    /\ keys = MaxKeys

(***************************************************************************)
(* The selected index.                                                     *)
(***************************************************************************)
\* C26: between handlers this.selected is null or the index of one of
\* this.suggestions.
C26_SelectedInRange ==
    selected = NullIndex \/ (0 <= selected /\ selected < Len(suggestions))

(***************************************************************************)
(* The tokenizer.                                                          *)
(***************************************************************************)
\* the text a rule matched for a token: the value, within its quotes for a
\* STRING_VALUE
Lexeme(tok) ==
    IF tok.name = "STRING_VALUE" THEN <<"\"">> \o tok.value \o <<"\"">>
    ELSE tok.value

\* the offset at which the lexeme of a token begins
LexemeStart(tok) == tok.end - Len(Lexeme(tok))

\* C22: start and end of every token of lexAll(text) are offsets into text
\* with text[start:end] the lexeme of the token, and the tokens come in
\* increasing order without overlap.
C22_OffsetsCoverLexeme ==
    keys = 1 =>
        /\ \A k \in 1..Len(tokens) :
              /\ 0 <= tokens[k].start
              /\ tokens[k].start <= tokens[k].end
              /\ tokens[k].end <= Len(text)
              /\ Slice(text, tokens[k].start, tokens[k].end)
                     = Lexeme(tokens[k])
        /\ \A k \in 2..Len(tokens) : tokens[k].start >= tokens[k - 1].end

\* the names of the reserved-word tokens
ReservedNames ==
    { Rules[k].name : k \in { j \in 1..Len(Rules) : Rules[j].kind = "word" } }

\* the word w stands in the text at offset i and a name character follows it
BeginsLongerName(w, i) ==
    /\ i + Len(w) < Len(text)
    /\ Slice(text, i, i + Len(w)) = w
    /\ text[i + Len(w) + 1] \in NameChars

\* no name character follows offset i of the text
NameEndsAt(i) == i = Len(text) \/ text[i + 1] \notin NameChars

\* C23: a reserved-word token is never followed by a name character; a
\* token that begins with a reserved word and goes on with a name character
\* is one NAME token that covers the whole identifier; a NAME token is never
\* a reserved word, and a reserved word alone is its own token.
C23_ReservedWords ==
    keys = 1 =>
        /\ \A k \in 1..Len(tokens) :
              tokens[k].name \in ReservedNames => NameEndsAt(tokens[k].end)
        /\ \A k \in 1..Len(tokens) :
              tokens[k].name = "NAME" => tokens[k].value \notin ReservedWords
        /\ \A k \in 1..Len(tokens) : \A w \in ReservedWords :
              BeginsLongerName(w, LexemeStart(tokens[k]))
                  => /\ tokens[k].name = "NAME"
                     /\ NameEndsAt(tokens[k].end)
        /\ \A w \in ReservedWords :
              /\ BeginsLongerName(w, 0)
                     => Len(tokens) >= 1 /\ LexemeStart(tokens[1]) = 0
              /\ text = w
                     => /\ Len(tokens) = 1
                        /\ tokens[1].name \in ReservedNames
                        /\ tokens[1].value = w

\* None_ has been tokenized: one NAME
C23_Witness ==
    /\ keys = 1
    /\ text = <<"N", "o", "n", "e", "_">>
    /\ Len(tokens) = 1
    /\ tokens[1].name = "NAME"
    /\ tokens[1].end = 5

(***************************************************************************)
(* The token under the cursor, under SpecCursor.                           *)
(***************************************************************************)
\* the last token of the text before the cursor ends at the cursor
EndsAtCursor(tokens0) ==
    Len(tokens0) > 0 /\ tokens0[Len(tokens0)].end = cursor

\* the text selectCompletion cuts (lines 454-459) lies within tokens of the
\* whole text that the cursor is in or at the end of
CutWithinCursorToken(allTokens) ==
    LET full == context.currentFullToken
        startPos == cursor - Len(context.prefix)
    IN  full.name \notin {Null, Undefined} =>
            \A k \in 1..Len(allTokens) :
                (LexemeStart(allTokens[k]) < full.end
                    /\ allTokens[k].end > startPos)
                => (LexemeStart(allTokens[k]) <= cursor
                        /\ cursor <= allTokens[k].end)

\* C24: when the last token of the text before the cursor ends at the
\* cursor, currentFullToken is the token of the whole text that begins where
\* that token begins and ends at or after the cursor; otherwise it is null;
\* and accepting a suggestion cuts no text of a token the cursor is not in.
C24_FullTokenUnderCursor ==
    (context.called /\ ~context.threw) =>
        \E tokens0 \in {lexAll(Slice(text, 0, cursor))} :
        \E allTokens \in {lexAll(text)} :
            /\ IF EndsAtCursor(tokens0)
               THEN /\ \E k \in 1..Len(allTokens) :
                          allTokens[k] = context.currentFullToken
                    /\ LexemeStart(context.currentFullToken)
                           = LexemeStart(tokens0[Len(tokens0)])
                    /\ context.currentFullToken.end >= cursor
               ELSE context.currentFullToken = NullToken
            /\ CutWithinCursorToken(allTokens)

(***************************************************************************)
(* Paths through scalar fields, under SpecPath.                            *)
(***************************************************************************)
\* the model reached from model by the segments i.. of a path when each of
\* them is a relation field of the model current at its point; null otherwise
RECURSIVE RelationWalk(_, _, _)
RelationWalk(parts, i, model) ==
    IF i > Len(parts) THEN model
    ELSE IF /\ model \in DOMAIN models
            /\ HasField(model, parts[i])
            /\ Field(model, parts[i]).type = "relation"
    THEN RelationWalk(parts, i + 1, Field(model, parts[i]).relation)
    ELSE Null

\* getContext has returned for a path that ends in a dot, the cursor after it
C25_Case ==
    /\ context.called
    /\ ~context.threw
    /\ cursor = Len(text)
    /\ Len(text) > 1
    /\ text[Len(text)] = "."

\* C25: for a dotted fragment the scope is 'field' with the related model
\* only if every segment before the last dot is a relation field; a segment
\* that is unknown or is a scalar field gives scope = null and model = null.
C25_RelationsOnly ==
    C25_Case =>
        \E target \in { RelationWalk(Split(Slice(text, 0, Len(text) - 1)), 1,
                                     currentModel) } :
            IF target # Null
            THEN context.scope = "field" /\ context.model = target
            ELSE context.scope = Null /\ context.model = Null

(***************************************************************************)
(* The entries of the cache, under SpecRemote.                             *)
(***************************************************************************)
\* C27: an entry of the cache marked loading has its request under way.
C27_LoadingHasRequest ==
    \A k \in 1..Len(suggestionsCache) :
        suggestionsCache[k].loading
            => request.active /\ request.key = suggestionsCache[k].key

\* the items of the pages 1..page of the values that match the search
RECURSIVE PagesUpTo(_, _)
PagesUpTo(search, page) ==
    IF page = 0 THEN <<>>
    ELSE PagesUpTo(search, page - 1) \o PageItems(search, page)

\* C28: the items of an entry are the items of the pages 1..page in order,
\* each once, and the page of an entry that stays in the cache changes only
\* by one, when a response delivers the next page for its key.
C28_PagesInOrder ==
    /\ [](\A k \in 1..Len(suggestionsCache) :
              suggestionsCache[k].items
                  = PagesUpTo(suggestionsCache[k].key[3],
                              suggestionsCache[k].page))
    /\ [][\A k \in 1..Len(suggestionsCache) :
              LET key == suggestionsCache[k].key
                  old == suggestionsCache[k]
                  new == CacheEntry(suggestionsCache', key)
              IN  CacheHas(suggestionsCache', key) =>
                      \/ new.page = old.page /\ new.items = old.items
                      \/ /\ new.page = old.page + 1
                         /\ Delivery
                         /\ request.key = key
                         /\ delivered'.page = new.page]_vars

\* an entry holds its first two pages
C28_Witness ==
    \E k \in 1..Len(suggestionsCache) :
        /\ suggestionsCache[k].page = 2
        /\ Len(suggestionsCache[k].items) = 2
        /\ delivered.page = 2

====
